---- MODULE Spec2Model ----
(***************************************************************************)
(* A model of the favicons generator: the raster resize primitive          *)
(* (resizeImage), the batch runner (createMultipleSizes), the four         *)
(* per-platform generators and the orchestrator (generateIcons).           *)
(*                                                                         *)
(* Promises are modelled explicitly: every started operation is an entry   *)
(* of `jobs` that is pending until the environment settles it, and every   *)
(* `await` is a position of the awaiting function that is left only once   *)
(* the awaited promise has settled.                                        *)
(***************************************************************************)
EXTENDS Integers, Sequences, FiniteSets, TLC

(***************************************************************************)
(* Bounds of the model                                                     *)
(***************************************************************************)
\* longest size list handed to createMultipleSizes when it is run alone
MaxLen == 3
\* most operations the environment lets fail in one run of generateIcons
\* (an unreadable source image fails every raster job on top of that)
MaxFailures == 2

\* most operations the environment lets fail in a run of generateIcons that
\* is checked over several configurations
FewFailures == 1

\* most command line arguments of the CLI process
MaxArgs == 3

\* largest width and height, of the source image and of the target box,
\* when resizeImage is run alone
MaxDim == 4
\* how many other calls of generateIcons are made while a run is under way
MaxOthers == 1

\* sizes a caller may hand to createMultipleSizes when it is run alone
SizePool == {16, 32, 48}

(***************************************************************************)
(* Catalogs and fixed values of the program                                *)
(***************************************************************************)
FAVICON_SIZES_UpTo48 == <<16, 32, 48>>
FAVICON_SIZES == <<16, 32, 48, 96>>
APPLE_ICON_SIZES == <<57, 60, 72, 76, 114, 120, 144, 152, 180>>
DEFAULT_APPLE_ICON_SIZE == 180
ANDROID_ICON_SIZES == <<192, 512>>
MS_TILE_SQUARE_SIZES == <<70, 144, 150, 310>>
MS_TILE_WIDE_SIZE == [width |-> 310, height |-> 150]
iconsDir == "icons"
backgroundColor == "#ffffff00"
\* `/${iconsDir}`
iconPath == "/" \o iconsDir
DEFAULT_OUTPUT_DIR == "static"

\* null / undefined
Null == [null |-> TRUE]

(***************************************************************************)
(* Paths.  A path string is kept as its segments, the pieces between the   *)
(* "/": "static/icons" is <<"static", "icons">>, "out/" is <<"out", "">>,  *)
(* "/srv" is <<"", "srv">>, "/" is <<"", "">> and "" is <<>>.              *)
(***************************************************************************)
\* the string of a sequence of segments
RECURSIVE Str(_)
Str(segs) ==
    IF segs = <<>> THEN ""
    ELSE IF Len(segs) = 1 THEN segs[1]
    ELSE Head(segs) \o "/" \o Str(Tail(segs))

IsAbsolute(segs) == Len(segs) > 1 /\ segs[1] = ""

\* the segments path.normalize keeps: empty and "." segments are dropped,
\* ".." removes the segment before it (at the root it is dropped, at the
\* start of a relative path it stays)
RECURSIVE Resolve(_, _, _)
Resolve(segs, kept, abs) ==
    IF segs = <<>> THEN kept
    ELSE LET s == Head(segs) IN
         IF s \in {"", "."} THEN Resolve(Tail(segs), kept, abs)
         ELSE IF s # ".." THEN Resolve(Tail(segs), Append(kept, s), abs)
         ELSE IF kept # <<>> /\ kept[Len(kept)] # ".."
              THEN Resolve(Tail(segs), SubSeq(kept, 1, Len(kept) - 1), abs)
         ELSE IF abs THEN Resolve(Tail(segs), kept, abs)
         ELSE Resolve(Tail(segs), Append(kept, ".."), abs)

\* path.normalize of a path that is not written with a trailing "/", as
\* every path.join(dir, name) of the program is
Normalize(segs) ==
    LET kept == Resolve(segs, <<>>, IsAbsolute(segs)) IN
    IF IsAbsolute(segs) THEN <<"">> \o (IF kept = <<>> THEN <<"">> ELSE kept)
    ELSE IF kept = <<>> THEN <<".">> ELSE kept

\* path.join(dir, name) naming a directory
JoinDir(dir, name) == Normalize(dir \o <<name>>)
\* path.join(dir, name) naming a file, kept as path.dirname of the result
\* and its last segment
Join(dir, name) == [dir |-> Normalize(dir), base |-> name]
Dirname(p) == p.dir
\* the string path.join(dir, name) returns
PathString(p) ==
    IF p.dir = <<".">> THEN p.base
    ELSE IF p.dir = <<"", "">> THEN "/" \o p.base
    ELSE Str(p.dir) \o "/" \o p.base

\* the {size} placeholder of an output path pattern
SizeToken == "{size}"

RECURSIVE Concat(_)
Concat(toks) == IF toks = <<>> THEN "" ELSE Head(toks) \o Concat(Tail(toks))

\* outputPathPattern.replaceAll('{size}', size.toString()); a pattern is
\* the segments of a directory, each of them a name or the placeholder, and
\* the sequence of literal pieces and placeholders of its last segment
ReplaceFirst(pattern, size) ==
    LET inDir == {i \in 1..Len(pattern.dir) : pattern.dir[i] = SizeToken}
        at == {i \in 1..Len(pattern.toks) : pattern.toks[i] = SizeToken}
    IN Join([i \in 1..Len(pattern.dir) |->
                IF i \in inDir /\ \A k \in inDir : i <= k THEN ToString(size)
                ELSE pattern.dir[i]],
            Concat([i \in 1..Len(pattern.toks) |->
                       IF inDir = {} /\ i \in at /\ \A k \in at : i <= k
                       THEN ToString(size)
                       ELSE pattern.toks[i]]))
ReplaceAll(pattern, size) ==
    Join([i \in 1..Len(pattern.dir) |->
             IF pattern.dir[i] = SizeToken THEN ToString(size)
             ELSE pattern.dir[i]],
         Concat([i \in 1..Len(pattern.toks) |->
                    IF pattern.toks[i] = SizeToken THEN ToString(size)
                    ELSE pattern.toks[i]]))

SizedPattern(dir, prefix) ==
    [dir |-> Normalize(dir),
     toks |-> <<prefix, SizeToken, "x", SizeToken, ".png">>]

VARIABLES
    config,          \* GenerationConfig of the run
    sourceReadable,  \* environment: the source image can be decoded
    failBudget,      \* environment: operations that may still fail
    uncreatable,     \* environment: directories mkdirSync cannot create
    source,          \* environment: width and height of the source image
    prev,            \* the earlier run of generateIcons in this process
    args,            \* CLI: the ParsedArgs of the process
    cpc,             \* CLI: position of the main script
    exitCode,        \* CLI: the code the process exits with
    out,             \* CLI: what the main script has printed, in order
    verboseMode,     \* logger: the module-level verbose flag
    log,             \* logger: the lines the logger has printed, in order
    others,          \* other calls of generateIcons made in this process
    dirs,            \* file system: the directories that exist
    files,           \* file system: the files written so far
    jobs,            \* every operation started so far, with its promise
    bpc,             \* createMultipleSizes: position
    bargs,           \* createMultipleSizes: arguments of the call
    bjobs,           \* createMultipleSizes: resizePromises (ids into jobs)
    bret,            \* createMultipleSizes: the settled returned promise
    gen,             \* the per-platform generator that is running
    gpc,             \* generator: position
    results,         \* generator: local results array
    cur,             \* generator: id of the job it awaits
    gret,            \* generator: the settled returned promise
    pc,              \* generateIcons: position
    report,          \* generateIcons: the results object
    trace            \* history: the steps generateIcons has begun, in order

vars == <<config, sourceReadable, failBudget, uncreatable, source, prev,
          args, cpc, exitCode, out, verboseMode, log, others, dirs, files,
          jobs,
          bpc, bargs, bjobs, bret, gen, gpc, results, cur, gret, pc, report,
          trace>>

cliVars == <<args, cpc, exitCode, out>>
procVars == <<verboseMode, log, others>>
envVars == <<config, sourceReadable, uncreatable, source, prev, cliVars>>
batchVars == <<bpc, bargs, bjobs, bret>>
genVars == <<gen, gpc, results, cur, gret>>
orchVars == <<pc, report, trace>>

(***************************************************************************)
(* logger.ts.  A line is kept as what it says and the path or process it   *)
(* names.                                                                  *)
(***************************************************************************)
\* the module is loaded: let verboseMode: boolean = true
LoggerLoaded == verboseMode = TRUE /\ log = <<>> /\ others = 0

\* if (verboseMode) console.log(`Created ${path}`)
logFileCreatedAlways(path) ==
    <<[says |-> "Created", what |-> PathString(path)]>>
logFileCreated(path) ==
    IF verboseMode THEN <<[says |-> "Created", what |-> PathString(path)]>>
    ELSE <<>>
\* console.error(`Error creating ${path}`), whatever verboseMode is
logFileError(path) == <<[says |-> "Error creating", what |-> PathString(path)]>>
\* if (verboseMode) console.log(`Generating ${process}...`)
logGenerationStart(process) ==
    IF verboseMode THEN <<[says |-> "Generating", what |-> process]>> ELSE <<>>

\* results.forEach(result => result.success ? logFileCreated(result.path)
\*                                          : logFileError(result.path, ..))
RECURSIVE LogEach(_)
LogEach(rs) ==
    IF rs = <<>> THEN <<>>
    ELSE (IF Head(rs).success THEN logFileCreated(Head(rs).path)
          ELSE logFileError(Head(rs).path)) \o LogEach(Tail(rs))

\* try { await ..; logFileCreated(path) } catch { logFileError(path, ..) }
FileLine(job) ==
    IF job.promise.st = "fulfilled" THEN logFileCreated(job.path)
    ELSE logFileError(job.path)

\* the lines are printed; nothing else of the process changes
Emit(lines) ==
    /\ log' = log \o lines
    /\ UNCHANGED <<verboseMode, others>>

(***************************************************************************)
(* file-system.ts                                                          *)
(***************************************************************************)
\* ensureDirectoryExists(dirPath) returns normally: the directory exists
\* already or mkdirSync creates it
\* the directories mkdirSync(dirPath, { recursive: true }) has to create
Missing(d, ds) ==
    LET n == Normalize(d) IN
    {SubSeq(n, 1, k) : k \in 1..Len(n)}
        \ (ds \cup {<<"">>, <<"", "">>, <<".">>})
\* fs.existsSync(dirPath): the working directory and the root always exist
Exists(d, ds) == d # <<>> /\ Missing(d, ds) \cap {Normalize(d)} = {}
EnsureOkAlwaysMkdir(d, ds) ==
    d # <<>> /\ ~Exists(d, ds) /\ Missing(d, ds) \cap uncreatable = {}
EnsureOk(d, ds) ==
    \/ Exists(d, ds)
    \/ d # <<>> /\ Missing(d, ds) \cap uncreatable = {}
\* the directories after ensureDirectoryExists(dirPath)
EnsureDirs(d, ds) ==
    IF ~Exists(d, ds) /\ EnsureOk(d, ds) THEN ds \cup Missing(d, ds) ELSE ds

(***************************************************************************)
(* image-utils.ts: resizeImage                                             *)
(***************************************************************************)
\* The promise an async function returns after its synchronous part: an
\* exception thrown before the first await rejects the returned promise,
\* it does not reach the caller as an exception.
AsyncSyncThrow(ok) ==
    IF ok THEN [st |-> "pending"] ELSE [st |-> "threw", error |-> "mkdir"]
AsyncReturn(ok) ==
    IF ok THEN [st |-> "pending"] ELSE [st |-> "rejected", error |-> "mkdir"]

\* the options resizeImage hands to sharp's resize
ResizeOptionsDefaultFit(background) ==
    [fit |-> "cover", background |-> background]
ResizeOptions(background) == [fit |-> "contain", background |-> background]

\* resizeImage(inputPath, width, height, background, outputPath), up to the
\* point where it hands the sharp pipeline's promise back; slot is the
\* index of the call in its batch (0 for a call awaited on its own)
resizeImage(g, slot, size, width, height, background, outputPath, ds) ==
    [gen |-> g, slot |-> slot, size |-> size, width |-> width,
     height |-> height, input |-> config.sourceImage, path |-> outputPath,
     options |-> ResizeOptions(background), image |-> Null,
     chained |-> Null,
     promise |-> AsyncReturn(EnsureOk(Dirname(outputPath), ds))]

(***************************************************************************)
(* sharp: the geometry of resize(width, height, { fit, background })       *)
(***************************************************************************)
\* Math.round(a / b) for positive integers
RoundDiv(a, b) == (2 * a + b) \div (2 * b)
\* no side of an image is shorter than one pixel
Pixels(n) == IF n < 1 THEN 1 ELSE n

\* The image written for a source of size src: its width and height, the
\* size `inner` the source is scaled to, the part `shown` of the source (in
\* source pixels) that is visible, and the colour that fills the rest.
\* contain scales the source to fit inside the box and pads; cover scales
\* it to fill the box and crops; inside scales to fit and does not pad.
SharpResize(src, width, height, options) ==
    LET widthBinds == width * src.height <= height * src.width
        fitted ==
            IF widthBinds
            THEN [width |-> width,
                  height |-> Pixels(RoundDiv(src.height * width, src.width))]
            ELSE [width |-> Pixels(RoundDiv(src.width * height, src.height)),
                  height |-> height]
        cropped ==
            IF widthBinds
            THEN [width |-> Pixels(RoundDiv(width * src.height, height)),
                  height |-> src.height]
            ELSE [width |-> src.width,
                  height |-> Pixels(RoundDiv(height * src.width, width))]
    IN IF options.fit = "contain"
       THEN [width |-> width, height |-> height, inner |-> fitted,
             shown |-> src, fill |-> <<options.background>>]
       ELSE IF options.fit = "cover"
       THEN [width |-> width, height |-> height,
             inner |-> [width |-> width, height |-> height],
             shown |-> cropped, fill |-> <<>>]
       ELSE [width |-> fitted.width, height |-> fitted.height,
             inner |-> fitted, shown |-> src, fill |-> <<>>]

\* toFile(outputPath) has written the image of a resize that succeeded
ToFile(job, promise) ==
    IF promise.st = "fulfilled" /\ "options" \in DOMAIN job
    THEN [job EXCEPT !.image = SharpResize(source, job.width, job.height,
                                            job.options)]
    ELSE job

\* the operations of the earlier run, if there was one, that wrote to the
\* path of this one
Repeated(job) ==
    {i \in 1..(IF prev = Null THEN 0 ELSE Len(prev.jobs)) :
        /\ prev.jobs[i].path = job.path
        /\ prev.jobs[i].promise.st # "pending"}
\* the outcomes the environment may give a pending operation: decoding an
\* unreadable source fails, as does converting a PNG that was not written;
\* an operation that is repeated behaves as it did in the earlier run
Outcomes(job) ==
    IF Repeated(job) # {}
    THEN {IF prev.jobs[i].promise.st = "fulfilled" THEN "ok" ELSE "failed" :
             i \in Repeated(job)}
    ELSE IF job.gen = "ico" /\ job.input \notin files THEN {"failed"}
    ELSE IF job.gen # "ico" /\ ~sourceReadable THEN {"failed"}
    ELSE {"ok"} \cup (IF failBudget > 0 THEN {"failed"} ELSE {})

\* sharp(..).resize(..).toFile(outputPath) settles
Settled(outcome) ==
    IF outcome = "ok" THEN [st |-> "fulfilled"]
    ELSE [st |-> "rejected", error |-> "sharp"]

(***************************************************************************)
(* image-utils.ts: createMultipleSizes                                     *)
(***************************************************************************)
\* .then(() => ({ size, path: outputPath, success: true }))
ThenHandlerShared(job) ==
    [st |-> "fulfilled",
     value |-> [size |-> job.size, path |-> job.path,
                success |-> \A k \in 1..Len(jobs) :
                               jobs[k].promise.st # "rejected"]]
ThenHandler(job) ==
    [st |-> "fulfilled",
     value |-> [size |-> job.size, path |-> job.path, success |-> TRUE]]

\* .catch(error => ({ size, path: outputPath, success: false, error }))
CatchRethrow(job, promise) ==
    [st |-> "rejected", error |-> promise.error]
CatchHandler(job, promise) ==
    [st |-> "fulfilled",
     value |-> [size |-> job.size, path |-> job.path, success |-> FALSE,
                error |-> promise.error]]

\* the promise resizeImage(..).then(..).catch(..) once the promise of
\* resizeImage has settled as `promise`
ChainNoCatch(job, promise) ==
    IF promise.st = "fulfilled" THEN ThenHandler(job)
    ELSE [st |-> "rejected", error |-> promise.error]
Chain(job, promise) ==
    IF promise.st = "fulfilled" THEN ThenHandler(job)
    ELSE CatchHandler(job, promise)

\* sizes.map(size => ...): the jobs of one batch, all started in one
\* synchronous pass over the sizes
MapSizes(g, sizes, background, pattern, ds) ==
    [i \in 1..Len(sizes) |->
        resizeImage(g, i, sizes[i], sizes[i], sizes[i], background,
                    ReplaceAll(pattern, sizes[i]), ds)]

\* the directories after that pass
MapDirs(sizes, pattern, ds) ==
    LET outputDirs == {Dirname(ReplaceAll(pattern, sizes[i])) :
                          i \in 1..Len(sizes)}
    IN ds \cup UNION {EnsureDirs(d, ds) : d \in outputDirs}

\* the calls made before an exception escaped the map callback (all of
\* them when none did)
Started(js) ==
    LET threw == {i \in 1..Len(js) : js[i].promise.st = "threw"} IN
    IF threw = {} THEN js
    ELSE SubSeq(js, 1, (CHOOSE i \in threw : \A k \in threw : i <= k) - 1)

\* Promise.all keeps one value slot per input promise and fills the slot
\* of the input that was fulfilled, whenever that happens
ResolveElementInOrderOfCompletion(values, index, v) ==
    LET free == {k \in 1..Len(values) : values[k] = Null} IN
    [values EXCEPT ![CHOOSE k \in free : \A m \in free : k <= m] = v]
ResolveElement(values, index, v) == [values EXCEPT ![index] = v]

\* an input promise of Promise.all was rejected
AnyRejected(ids) ==
    \E i \in 1..Len(ids) : /\ jobs[ids[i]].chained # Null
                           /\ jobs[ids[i]].chained.st = "rejected"

\* Promise.all(promises) settles: as soon as one input is rejected, or
\* once every input is fulfilled
PromiseAnyReady(ids, values) ==
    \/ AnyRejected(ids)
    \/ \E i \in 1..Len(values) : values[i] # Null
    \/ values = <<>>
PromiseAllReady(ids, values) ==
    \/ AnyRejected(ids)
    \/ \A i \in 1..Len(values) : values[i] # Null

PromiseAllDropFailed(ids, values) ==
    IF AnyRejected(ids) THEN [st |-> "rejected", error |-> "input rejected"]
    ELSE [st |-> "fulfilled",
          value |-> SelectSeq(values, LAMBDA r : r.success)]
PromiseAll(ids, values) ==
    IF AnyRejected(ids) THEN [st |-> "rejected", error |-> "input rejected"]
    ELSE [st |-> "fulfilled", value |-> values]

NoBatch == [ids |-> <<>>, values |-> <<>>, outOfOrder |-> FALSE]
NoArgs == [gen |-> "none", sizes |-> <<>>, background |-> "",
           pattern |-> [dir |-> <<>>, toks |-> <<>>]]

\* createMultipleSizes is called: the map runs, Promise.all is handed the
\* promises and the function suspends
createMultipleSizes_map ==
    /\ bpc = "called"
    /\ \E js \in {MapSizes(bargs.gen, bargs.sizes, bargs.background,
                            bargs.pattern, dirs)} :
       \E started \in {Started(js)} :
          /\ jobs' = jobs \o started
          /\ dirs' = MapDirs(bargs.sizes, bargs.pattern, dirs)
          /\ IF Len(started) < Len(js)
             THEN /\ bpc' = "returned"
                  /\ bret' = [st |-> "rejected", error |-> "mkdir"]
                  /\ bjobs' = NoBatch
             ELSE /\ bpc' = "awaiting"
                  /\ bret' = Null
                  /\ bjobs' = [ids |-> [i \in 1..Len(js) |-> Len(jobs) + i],
                               values |-> [i \in 1..Len(js) |-> Null],
                               outOfOrder |-> FALSE]
    /\ UNCHANGED <<envVars, procVars, failBudget, files, bargs, genVars,
                   orchVars>>

\* history: job id settles while a job its batch started earlier has not
Overtakes(id) ==
    \E i \in 1..Len(bjobs.ids) : /\ bjobs.ids[i] < id
                                 /\ jobs[bjobs.ids[i]].chained = Null

\* One started operation settles and the handlers chained to it run.  A
\* promise that was rejected when it was created only has its handlers run.
SettleJob ==
    \E id \in 1..Len(jobs) :
    /\ \/ jobs[id].promise.st = "pending"
       \/ jobs[id].slot > 0 /\ jobs[id].chained = Null
    /\ \E o \in (IF jobs[id].promise.st = "pending" THEN Outcomes(jobs[id])
                 ELSE {"created rejected"}) :
        LET job == jobs[id]
            promise == IF job.promise.st = "pending" THEN Settled(o)
                       ELSE job.promise
            chained == IF job.slot > 0 THEN Chain(job, promise) ELSE Null
            mine == /\ job.slot > 0
                    /\ bpc = "awaiting"
                    /\ job.slot <= Len(bjobs.ids)
                    /\ bjobs.ids[job.slot] = id
        IN /\ jobs' = [jobs EXCEPT
                          ![id] = [ToFile(job, promise) EXCEPT
                                     !.promise = promise,
                                     !.chained = chained]]
           /\ files' = IF promise.st = "fulfilled"
                       THEN files \cup {job.path} ELSE files
           /\ failBudget' = IF o = "failed" /\ "ok" \in Outcomes(job)
                            THEN failBudget - 1 ELSE failBudget
           /\ bjobs' = IF mine /\ chained.st = "fulfilled"
                       THEN [bjobs EXCEPT
                               !.values = ResolveElement(bjobs.values,
                                              job.slot, chained.value),
                               !.outOfOrder = @ \/ Overtakes(id)]
                       ELSE bjobs
    /\ UNCHANGED <<envVars, procVars, dirs, bpc, bargs, bret, genVars,
                   orchVars>>

\* return Promise.all(resizePromises): the promise of createMultipleSizes
\* settles as Promise.all does
createMultipleSizes_return ==
    /\ bpc = "awaiting"
    /\ PromiseAllReady(bjobs.ids, bjobs.values)
    /\ bpc' = "returned"
    /\ bret' = PromiseAll(bjobs.ids, bjobs.values)
    /\ UNCHANGED <<envVars, procVars, failBudget, dirs, files, jobs, bargs,
                   bjobs, genVars, orchVars>>

\* no generator is running
NoGen == [name |-> "none", outputDir |-> <<>>, pngPath |-> Null,
          outputPath |-> Null]
\* the frame of a generator called with (sourceImage, background, outputDir)
Generator(name, outputDir) ==
    [name |-> name, background |-> backgroundColor, outputDir |-> outputDir,
     pngPath |-> Null, outputPath |-> Null]

(***************************************************************************)
(* What the generators share                                               *)
(***************************************************************************)
\* `${prefix}${size}x${size}.png`
SizedName(prefix, size) ==
    prefix \o ToString(size) \o "x" \o ToString(size) \o ".png"

\* a generator calls createMultipleSizes(sourceImage, sizes, background,
\* pattern) and suspends on the promise it returns
CallBatch(sizes, pattern) ==
    /\ bpc' = "called"
    /\ bargs' = [gen |-> gen.name, sizes |-> sizes,
                 background |-> gen.background, pattern |-> pattern]
    /\ bjobs' = NoBatch
    /\ bret' = Null

\* a generator calls resizeImage(..) inside try and suspends on its promise;
\* `threw` is the id the generator resumes with when the call threw
StartResize(job) ==
    \E started \in {job} :
        /\ dirs' = EnsureDirs(Dirname(started.path), dirs)
        /\ jobs' = Append(jobs, started)
        /\ cur' = Len(jobs) + 1

\* the awaited promise has settled
Resumable == cur \in 1..Len(jobs) /\ jobs[cur].promise.st # "pending"

fulfilled(v) == [st |-> "fulfilled", value |-> v]
rejected(e) == [st |-> "rejected", error |-> e]

(***************************************************************************)
(* generators/favicon.ts: generateFaviconPngs                              *)
(***************************************************************************)
\* try { await resizeImage(..); results.push({ size, path, success: true }) }
\* catch (error) { results.push({ size, path, success: false, error }) }
\* the local results array after the try statement, or the exception that
\* leaves it
FaviconTryNoCatch(res, job) ==
    IF job.promise.st = "fulfilled"
    THEN fulfilled(Append(res, [size |-> job.size, path |-> job.path,
                                success |-> TRUE]))
    ELSE rejected(job.promise.error)
FaviconTry(res, job) ==
    IF job.promise.st = "fulfilled"
    THEN fulfilled(Append(res, [size |-> job.size, path |-> job.path,
                                success |-> TRUE]))
    ELSE fulfilled(Append(res, [size |-> job.size, path |-> job.path,
                                success |-> FALSE,
                                error |-> job.promise.error]))

\* for (const size of FAVICON_SIZES): the next size is started
generateFaviconPngs_resize ==
    /\ gen.name = "favicon"
    /\ gpc = "loop"
    /\ Len(results) < Len(FAVICON_SIZES)
    /\ LET size == FAVICON_SIZES[Len(results) + 1]
           outputPath == Join(gen.outputDir, SizedName("favicon-", size))
       IN StartResize(resizeImage("favicon", 0, size, size, size,
                                  gen.background,
                                  outputPath, dirs))
    /\ gpc' = "await"
    /\ Emit(IF Len(results) = 0 THEN logGenerationStart("favicon PNG files")
            ELSE <<>>)
    /\ UNCHANGED <<envVars, failBudget, files, batchVars, gen, results,
                   gret, orchVars>>

\* the awaited resizeImage has settled: the result of this size is pushed
generateFaviconPngs_push ==
    /\ gen.name = "favicon"
    /\ gpc = "await"
    /\ Resumable
    /\ LET t == FaviconTry(results, jobs[cur]) IN
       IF t.st = "fulfilled"
       THEN /\ results' = t.value
            /\ gpc' = "loop"
            /\ gret' = gret
       ELSE /\ results' = results
            /\ gpc' = "returned"
            /\ gret' = t
    /\ Emit(FileLine(jobs[cur]))
    /\ UNCHANGED <<envVars, failBudget, dirs, files, jobs, batchVars, gen,
                   cur, orchVars>>

\* return results
generateFaviconPngs_return ==
    /\ gen.name = "favicon"
    /\ gpc = "loop"
    /\ Len(results) = Len(FAVICON_SIZES)
    /\ gpc' = "returned"
    /\ gret' = fulfilled(results)
    /\ UNCHANGED <<envVars, procVars, failBudget, dirs, files, jobs,
                   batchVars, gen, results, cur, orchVars>>

(***************************************************************************)
(* image-utils.ts: createFaviconIco; generators/favicon.ts:                *)
(* generateFaviconIco                                                      *)
(***************************************************************************)
\* createFaviconIco up to `await pngToIco([inputPath])`: the conversion is
\* started unless ensureDirectoryExists threw inside the try
createFaviconIco(inputPath, outputPath, ds) ==
    [gen |-> "ico", slot |-> 0, size |-> 32, width |-> 32, height |-> 32,
     input |-> inputPath, path |-> outputPath, chained |-> Null,
     promise |-> IF EnsureOk(Dirname(outputPath), ds) THEN [st |-> "pending"]
                 ELSE [st |-> "rejected", error |-> "mkdir"]]

\* the promise of createFaviconIco once conversion and write are over:
\* try { ...; return true } catch (error) { ...; return false }
createFaviconIcoRethrow(job) ==
    IF job.promise.st = "fulfilled" THEN fulfilled(TRUE)
    ELSE rejected(job.promise.error)
createFaviconIcoSettled(job) ==
    IF job.promise.st = "fulfilled" THEN fulfilled(TRUE) ELSE fulfilled(FALSE)

\* catch (error) { console.error('Error creating favicon.ico:', error) }
createFaviconIcoError(job) ==
    IF job.promise.st = "fulfilled" THEN <<>>
    ELSE <<[says |-> "Error creating favicon.ico:",
            what |-> job.promise.error]>>

\* generateFaviconIco after `await createFaviconIco(pngPath, outputPath)`
generateFaviconIcoResult(job) ==
    LET p == createFaviconIcoSettled(job) IN
    IF p.st = "rejected"
    THEN [path |-> job.path, success |-> FALSE, error |-> p.error]
    ELSE IF p.value THEN [path |-> job.path, success |-> TRUE]
         ELSE [path |-> job.path, success |-> FALSE]

\* generateFaviconIco is entered and suspends on createFaviconIco
generateFaviconIco_convert ==
    /\ gen.name = "ico"
    /\ gpc = "start"
    /\ StartResize(createFaviconIco(gen.pngPath, gen.outputPath, dirs))
    /\ gpc' = "await"
    /\ Emit(logGenerationStart("favicon.ico"))
    /\ UNCHANGED <<envVars, failBudget, files, batchVars, gen, results,
                   gret, orchVars>>

\* createFaviconIco has settled: generateFaviconIco returns its result
generateFaviconIco_return ==
    /\ gen.name = "ico"
    /\ gpc = "await"
    /\ Resumable
    /\ gpc' = "returned"
    /\ gret' = fulfilled(generateFaviconIcoResult(jobs[cur]))
    /\ Emit(createFaviconIcoError(jobs[cur]) \o FileLine(jobs[cur]))
    /\ UNCHANGED <<envVars, failBudget, dirs, files, jobs, batchVars, gen,
                   results, cur, orchVars>>

(***************************************************************************)
(* generators/apple.ts: generateAppleTouchIcons                            *)
(***************************************************************************)
\* the try statement around the default apple-touch-icon.png
AppleTryUnflagged(res, job) ==
    IF job.promise.st = "fulfilled"
    THEN fulfilled(Append(res, [size |-> DEFAULT_APPLE_ICON_SIZE,
                                path |-> job.path, success |-> TRUE,
                                isDefault |-> TRUE]))
    ELSE fulfilled(Append(res, [size |-> DEFAULT_APPLE_ICON_SIZE,
                                path |-> job.path, success |-> FALSE,
                                error |-> job.promise.error]))
AppleTry(res, job) ==
    IF job.promise.st = "fulfilled"
    THEN fulfilled(Append(res, [size |-> DEFAULT_APPLE_ICON_SIZE,
                                path |-> job.path, success |-> TRUE,
                                isDefault |-> TRUE]))
    ELSE fulfilled(Append(res, [size |-> DEFAULT_APPLE_ICON_SIZE,
                                path |-> job.path, success |-> FALSE,
                                error |-> job.promise.error,
                                isDefault |-> TRUE]))

\* the default icon is started
generateAppleTouchIcons_default ==
    /\ gen.name = "apple"
    /\ gpc = "start"
    /\ LET defaultOutputPath == Join(gen.outputDir, "apple-touch-icon.png")
       IN StartResize(resizeImage("apple", 0, DEFAULT_APPLE_ICON_SIZE,
                                  DEFAULT_APPLE_ICON_SIZE,
                                  DEFAULT_APPLE_ICON_SIZE, gen.background,
                                  defaultOutputPath, dirs))
    /\ gpc' = "await"
    /\ Emit(logGenerationStart("Apple Touch Icons"))
    /\ UNCHANGED <<envVars, failBudget, files, batchVars, gen, results,
                   gret, orchVars>>

\* the default icon has settled: its result is pushed and the sized icons
\* are handed to createMultipleSizes
generateAppleTouchIcons_sized ==
    /\ gen.name = "apple"
    /\ gpc = "await"
    /\ Resumable
    /\ LET t == AppleTry(results, jobs[cur]) IN
       IF t.st = "fulfilled"
       THEN /\ results' = t.value
            /\ gpc' = "awaitBatch"
            /\ gret' = gret
            /\ CallBatch(APPLE_ICON_SIZES,
                         SizedPattern(gen.outputDir, "apple-touch-icon-"))
       ELSE /\ results' = results
            /\ gpc' = "returned"
            /\ gret' = t
            /\ UNCHANGED batchVars
    /\ Emit(FileLine(jobs[cur]))
    /\ UNCHANGED <<envVars, failBudget, dirs, files, jobs, gen, cur,
                   orchVars>>

\* return [...results, ...sizedResults]
generateAppleTouchIcons_return ==
    /\ gen.name = "apple"
    /\ gpc = "awaitBatch"
    /\ bpc = "returned"
    /\ bpc' = "idle"
    /\ gpc' = "returned"
    /\ gret' = IF bret.st = "fulfilled" THEN fulfilled(results \o bret.value)
               ELSE bret
    /\ Emit(IF bret.st = "fulfilled" THEN LogEach(bret.value) ELSE <<>>)
    /\ UNCHANGED <<envVars, failBudget, dirs, files, jobs, bargs, bjobs,
                   bret, gen, results, cur, orchVars>>

(***************************************************************************)
(* generators/android.ts: generateAndroidIcons                             *)
(***************************************************************************)
generateAndroidIcons_sized ==
    /\ gen.name = "android"
    /\ gpc = "start"
    /\ gpc' = "awaitBatch"
    /\ CallBatch(ANDROID_ICON_SIZES,
                 SizedPattern(gen.outputDir, "android-chrome-"))
    /\ Emit(logGenerationStart("Android Chrome Icons"))
    /\ UNCHANGED <<envVars, failBudget, dirs, files, jobs, gen, results,
                   cur, gret, orchVars>>

\* return results
generateAndroidIcons_return ==
    /\ gen.name = "android"
    /\ gpc = "awaitBatch"
    /\ bpc = "returned"
    /\ bpc' = "idle"
    /\ gpc' = "returned"
    /\ gret' = bret
    /\ Emit(IF bret.st = "fulfilled" THEN LogEach(bret.value) ELSE <<>>)
    /\ UNCHANGED <<envVars, failBudget, dirs, files, jobs, bargs, bjobs,
                   bret, gen, results, cur, orchVars>>

(***************************************************************************)
(* generators/microsoft.ts: generateMicrosoftTiles                         *)
(***************************************************************************)
\* `${MS_TILE_WIDE_SIZE.width}x${MS_TILE_WIDE_SIZE.height}`
WideSizeOfWidth ==
    ToString(MS_TILE_WIDE_SIZE.width) \o "x"
        \o ToString(MS_TILE_WIDE_SIZE.width)
WideSize ==
    ToString(MS_TILE_WIDE_SIZE.width) \o "x"
        \o ToString(MS_TILE_WIDE_SIZE.height)

\* the try statement around the wide tile
MicrosoftTryUnflagged(res, job) ==
    IF job.promise.st = "fulfilled"
    THEN fulfilled(Append(res, [size |-> WideSize, path |-> job.path,
                                success |-> TRUE, isWide |-> TRUE]))
    ELSE fulfilled(Append(res, [size |-> WideSize, path |-> job.path,
                                success |-> FALSE,
                                error |-> job.promise.error]))
MicrosoftTry(res, job) ==
    IF job.promise.st = "fulfilled"
    THEN fulfilled(Append(res, [size |-> WideSize, path |-> job.path,
                                success |-> TRUE, isWide |-> TRUE]))
    ELSE fulfilled(Append(res, [size |-> WideSize, path |-> job.path,
                                success |-> FALSE,
                                error |-> job.promise.error,
                                isWide |-> TRUE]))

\* the square tiles are handed to createMultipleSizes
generateMicrosoftTiles_square ==
    /\ gen.name = "microsoft"
    /\ gpc = "start"
    /\ gpc' = "awaitBatch"
    /\ CallBatch(MS_TILE_SQUARE_SIZES, SizedPattern(gen.outputDir, "mstile-"))
    /\ Emit(logGenerationStart("Microsoft Tile Icons"))
    /\ UNCHANGED <<envVars, failBudget, dirs, files, jobs, gen, results,
                   cur, gret, orchVars>>

\* results.push(...squareResults), then the wide tile is started
generateMicrosoftTiles_wide ==
    /\ gen.name = "microsoft"
    /\ gpc = "awaitBatch"
    /\ bpc = "returned"
    /\ bpc' = "idle"
    /\ IF bret.st = "fulfilled"
       THEN /\ results' = results \o bret.value
            /\ LET wideOutputPath ==
                       Join(gen.outputDir, "mstile-" \o WideSize \o ".png")
               IN StartResize(resizeImage("microsoft", 0, WideSize,
                                          MS_TILE_WIDE_SIZE.width,
                                          MS_TILE_WIDE_SIZE.height,
                                          gen.background,
                                          wideOutputPath, dirs))
            /\ gpc' = "await"
            /\ gret' = gret
       ELSE /\ gpc' = "returned"
            /\ gret' = bret
            /\ UNCHANGED <<results, dirs, jobs, cur>>
    /\ Emit(IF bret.st = "fulfilled" THEN LogEach(bret.value) ELSE <<>>)
    /\ UNCHANGED <<envVars, failBudget, files, bargs, bjobs, bret, gen,
                   orchVars>>

\* the wide tile has settled: its result is pushed; return results
generateMicrosoftTiles_return ==
    /\ gen.name = "microsoft"
    /\ gpc = "await"
    /\ Resumable
    /\ LET t == MicrosoftTry(results, jobs[cur]) IN
       /\ results' = IF t.st = "fulfilled" THEN t.value ELSE results
       /\ gret' = t
    /\ gpc' = "returned"
    /\ Emit(FileLine(jobs[cur]))
    /\ UNCHANGED <<envVars, failBudget, dirs, files, jobs, batchVars, gen,
                   cur, orchVars>>

(***************************************************************************)
(* index.ts: generateIcons                                                 *)
(***************************************************************************)
\* path.join(outputDir, iconsDir)
iconsOutputDirFlat == Normalize(config.outputDir)
iconsOutputDir == JoinDir(config.outputDir, iconsDir)

\* results.favicons.png.find(item => item.size === 32 && item.success)
Find32AnyOutcome(png) ==
    LET hits == {i \in 1..Len(png) : png[i].size = 32} IN
    IF hits = {} THEN Null
    ELSE png[CHOOSE i \in hits : \A k \in hits : i <= k]
Find32(png) ==
    LET hits == {i \in 1..Len(png) : png[i].size = 32 /\ png[i].success} IN
    IF hits = {} THEN Null
    ELSE png[CHOOSE i \in hits : \A k \in hits : i <= k]

\* a generator is called and generateIcons suspends on its promise
CallGenerator(g) ==
    /\ gen' = g
    /\ gpc' = "start"
    /\ results' = <<>>
    /\ cur' = 0
    /\ gret' = Null

\* the awaited generator has returned
Returned(name) == gen.name = name /\ gpc = "returned"

\* catch (error) { console.error(..); throw error }
Throw ==
    /\ pc' = "rejected"
    /\ UNCHANGED <<report, trace, genVars>>

\* setVerboseMode; ensureDirectoryExists(outputDir);
\* ensureDirectoryExists(iconsOutputDir); the results object is created
generateIcons_ensureDirs ==
    /\ pc = "start"
    /\ dirs' = IF EnsureOk(config.outputDir, dirs)
               THEN EnsureDirs(iconsOutputDir,
                               EnsureDirs(config.outputDir, dirs))
               ELSE dirs
    /\ trace' = IF EnsureOk(config.outputDir, dirs)
                THEN <<"outputDir", "iconsDir">> ELSE <<"outputDir">>
    /\ pc' = IF /\ EnsureOk(config.outputDir, dirs)
                /\ EnsureOk(iconsOutputDir, EnsureDirs(config.outputDir, dirs))
             THEN "dirs" ELSE "rejected"
    /\ verboseMode' = config.verbose
    /\ UNCHANGED <<envVars, log, others, failBudget, files, jobs, batchVars,
                   genVars, report>>

\* Step 1: generateFaviconPngs is called
generateIcons_faviconPngs ==
    /\ pc = "dirs"
    /\ pc' = "faviconPngs"
    /\ trace' = Append(trace, "faviconPngs")
    /\ gen' = Generator("favicon", iconsOutputDir)
    /\ gpc' = "loop"
    /\ results' = <<>>
    /\ cur' = 0
    /\ gret' = Null
    /\ UNCHANGED <<envVars, procVars, failBudget, dirs, files, jobs,
                   batchVars, report>>

\* Step 2: the favicon PNGs are stored; generateFaviconIco is called when
\* there is a successful 32x32 PNG, else a warning is printed and Step 3
\* starts
generateIcons_faviconIco ==
    /\ pc = "faviconPngs"
    /\ Returned("favicon")
    /\ IF gret.st = "rejected" THEN Throw
       ELSE LET favicon32 == Find32(gret.value) IN
            /\ report' = [report EXCEPT !.favicons.png = gret.value]
            /\ IF favicon32 # Null
               THEN /\ pc' = "faviconIco"
                    /\ trace' = Append(trace, "faviconIco")
                    /\ CallGenerator(
                         [name |-> "ico", outputDir |-> config.outputDir,
                          pngPath |-> favicon32.path,
                          outputPath |-> Join(config.outputDir,
                                              "favicon.ico")])
               ELSE /\ pc' = "apple"
                    /\ trace' = Append(trace, "apple")
                    /\ CallGenerator(Generator("apple", iconsOutputDir))
    /\ UNCHANGED <<envVars, procVars, failBudget, dirs, files, jobs,
                   batchVars>>

\* Step 3: the result of generateFaviconIco is stored and
\* generateAppleTouchIcons is called
generateIcons_appleNotAwaited ==
    /\ pc = "faviconIco"
    /\ gen.name = "ico"
    /\ gpc \in {"await", "returned"}
    /\ report' = report
    /\ pc' = "apple"
    /\ trace' = Append(trace, "apple")
    /\ CallGenerator(Generator("apple", iconsOutputDir))
    /\ UNCHANGED <<envVars, procVars, failBudget, dirs, files, jobs,
                   batchVars>>
generateIcons_apple ==
    /\ pc = "faviconIco"
    /\ Returned("ico")
    /\ IF gret.st = "rejected" THEN Throw
       ELSE /\ report' = [report EXCEPT !.favicons.ico = gret.value]
            /\ pc' = "apple"
            /\ trace' = Append(trace, "apple")
            /\ CallGenerator(Generator("apple", iconsOutputDir))
    /\ UNCHANGED <<envVars, procVars, failBudget, dirs, files, jobs,
                   batchVars>>

\* Step 4: the Apple results are stored and generateAndroidIcons is called
generateIcons_android ==
    /\ pc = "apple"
    /\ Returned("apple")
    /\ IF gret.st = "rejected" THEN Throw
       ELSE /\ report' = [report EXCEPT !.apple = gret.value]
            /\ pc' = "android"
            /\ trace' = Append(trace, "android")
            /\ CallGenerator(Generator("android", iconsOutputDir))
    /\ UNCHANGED <<envVars, procVars, failBudget, dirs, files, jobs,
                   batchVars>>

\* Step 5: the Android results are stored and generateMicrosoftTiles is
\* called
generateIcons_microsoft ==
    /\ pc = "android"
    /\ Returned("android")
    /\ IF gret.st = "rejected" THEN Throw
       ELSE /\ report' = [report EXCEPT !.android = gret.value]
            /\ pc' = "microsoft"
            /\ trace' = Append(trace, "microsoft")
            /\ CallGenerator(Generator("microsoft", iconsOutputDir))
    /\ UNCHANGED <<envVars, procVars, failBudget, dirs, files, jobs,
                   batchVars>>

\* the Microsoft results are stored; the metadata files follow
generateIcons_tilesDone ==
    /\ pc = "microsoft"
    /\ Returned("microsoft")
    /\ IF gret.st = "rejected" THEN Throw
       ELSE /\ report' = [report EXCEPT !.microsoft = gret.value]
            /\ pc' = "webmanifest"
            /\ UNCHANGED <<trace, genVars>>
    /\ UNCHANGED <<envVars, procVars, failBudget, dirs, files, jobs,
                   batchVars>>

(***************************************************************************)
(* templates: the contents of the three metadata files, kept as the       *)
(* values the template literals interpolate                                *)
(***************************************************************************)
\* generateWebManifest(options); writeJsonToFile writes its
\* JSON.stringify, which keeps every key and value in this order
generateWebManifest(options) ==
    [name |-> options.name,
     short_name |-> options.shortName,
     icons |-> << [src |-> options.iconPath \o "/android-chrome-192x192.png",
                   sizes |-> "192x192", type |-> "image/png"],
                  [src |-> options.iconPath \o "/android-chrome-512x512.png",
                   sizes |-> "512x512", type |-> "image/png"] >>,
     theme_color |-> options.themeColor,
     background_color |-> options.backgroundColor,
     display |-> options.display]

\* generateBrowserConfig(options): the elements of <tile>, in order
generateBrowserConfig(options) ==
    << [tag |-> "square70x70logo",
        src |-> options.iconPath \o "/mstile-70x70.png"],
       [tag |-> "square150x150logo",
        src |-> options.iconPath \o "/mstile-150x150.png"],
       [tag |-> "square310x310logo",
        src |-> options.iconPath \o "/mstile-310x310.png"],
       [tag |-> "wide310x150logo",
        src |-> options.iconPath \o "/mstile-310x150.png"],
       [tag |-> "TileColor", text |-> options.tileColor] >>

\* generateHtmlHead(options): the tags, in order
generateHtmlHead(options) ==
    LET icon(n) == [tag |-> "link", rel |-> "icon", sizes |-> n,
                    href |-> options.iconPath \o "/favicon-" \o n \o ".png"]
        appleSizes == <<57, 60, 72, 76, 114, 120, 144, 152, 180>>
        apple(size) ==
            LET n == ToString(size) \o "x" \o ToString(size) IN
            [tag |-> "link", rel |-> "apple-touch-icon", sizes |-> n,
             href |-> options.iconPath \o "/apple-touch-icon-" \o n
                          \o ".png"]
    IN << icon("32x32"), icon("16x16"), icon("96x96"),
          [tag |-> "link", rel |-> "apple-touch-icon", sizes |-> "180x180",
           href |-> options.iconPath \o "/apple-touch-icon.png"] >>
       \o (IF options.includeAppleSizes
           THEN [i \in 1..Len(appleSizes) |-> apple(appleSizes[i])]
           ELSE <<>>)
       \o << [tag |-> "link", rel |-> "manifest",
              href |-> "/site.webmanifest"],
             [tag |-> "meta", name |-> "msapplication-config",
              content |-> "/browserconfig.xml"],
             [tag |-> "meta", name |-> "msapplication-TileColor",
              content |-> options.tileColor],
             [tag |-> "meta", name |-> "msapplication-TileImage",
              content |-> options.iconPath \o "/mstile-144x144.png"],
             [tag |-> "meta", name |-> "theme-color",
              content |-> options.themeColor] >>

\* the content generateIcons hands to the write of each metadata step
Content(step) ==
    IF step = "webmanifest"
    THEN generateWebManifest(
             [name |-> config.name, shortName |-> config.name,
              themeColor |-> backgroundColor,
              backgroundColor |-> backgroundColor,
              display |-> "standalone", iconPath |-> iconPath])
    ELSE IF step = "browserconfig"
    THEN generateBrowserConfig(
             [tileColor |-> backgroundColor, iconPath |-> iconPath])
    ELSE generateHtmlHead(
             [themeColor |-> backgroundColor, tileColor |-> backgroundColor,
              iconPath |-> iconPath, includeAppleSizes |-> TRUE])

\* writeContentToFile(filePath, content), called synchronously:
\* ensureDirectoryExists(dirname), then writeFileSync, either of which
\* may throw
writeContentToFile(step, filePath, ok) ==
    [gen |-> step, slot |-> 0, size |-> Null, width |-> 0, height |-> 0,
     input |-> Null, path |-> filePath, chained |-> Null,
     content |-> Content(step),
     promise |-> IF ok /\ EnsureOk(Dirname(filePath), dirs)
                 THEN [st |-> "fulfilled"]
                 ELSE [st |-> "threw", error |-> "write"]]

\* whether writeFileSync may succeed: it does what it did in the earlier
\* run, if there was one
WriteOutcomes(filePath) ==
    LET again == Repeated([path |-> filePath]) IN
    IF again # {}
    THEN {prev.jobs[i].promise.st = "fulfilled" : i \in again}
    ELSE {TRUE} \cup (IF failBudget > 0 THEN {FALSE} ELSE {})

\* the entry generateIcons records after a write that returned
FileResult(filePath) == [path |-> filePath, success |-> TRUE]

\* Steps 6 to 8: one metadata file is written and recorded; after the
\* last one the results object is returned
WriteStep(step, name, next) ==
    /\ pc = step
    /\ \E ok \in WriteOutcomes(Join(config.outputDir, name)) :
        LET filePath == Join(config.outputDir, name)
            w == writeContentToFile(step, filePath, ok)
        IN /\ jobs' = Append(jobs, w)
           /\ failBudget' = IF ~ok /\ TRUE \in WriteOutcomes(filePath)
                            THEN failBudget - 1 ELSE failBudget
           /\ trace' = Append(trace, step)
           /\ IF w.promise.st = "fulfilled"
              THEN /\ files' = files \cup {filePath}
                   /\ report' = [report EXCEPT ![step] = FileResult(filePath)]
                   /\ pc' = next
              ELSE /\ files' = files
                   /\ report' = report
                   /\ pc' = "rejected"
    /\ UNCHANGED <<envVars, procVars, dirs, batchVars, genVars>>

generateIcons_webmanifest ==
    WriteStep("webmanifest", "site.webmanifest", "browserconfig")
generateIcons_browserconfig ==
    WriteStep("browserconfig", "browserconfig.xml", "htmlInstructions")
generateIcons_htmlInstructions ==
    WriteStep("htmlInstructions", "head-instructions.html", "returned")

(***************************************************************************)
(* createMultipleSizes run on its own, over every size list up to MaxLen   *)
(***************************************************************************)
BatchDir == JoinDir(<<DEFAULT_OUTPUT_DIR>>, iconsDir)

RECURSIVE SeqsUpTo(_, _)
SeqsUpTo(S, n) ==
    IF n = 0 THEN {<<>>}
    ELSE LET shorter == SeqsUpTo(S, n - 1) IN
         shorter \cup {Append(s, x) : s \in shorter, x \in S}

BatchPatterns ==
    { SizedPattern(BatchDir, "favicon-"),
      [dir |-> BatchDir, toks |-> <<"icon-", SizeToken, ".png">>],
      [dir |-> BatchDir \o <<SizeToken>>,
       toks |-> <<"icon-", SizeToken, ".png">>],
      [dir |-> BatchDir, toks |-> <<"icon.png">>] }

NoReport ==
    [favicons |-> [png |-> <<>>, ico |-> Null], apple |-> <<>>,
     android |-> <<>>, microsoft |-> <<>>, webmanifest |-> Null,
     browserconfig |-> Null, htmlInstructions |-> Null]

IdleConfig ==
    [sourceImage |-> "logo.png", name |-> "Demo",
     outputDir |-> <<DEFAULT_OUTPUT_DIR>>, verbose |-> FALSE]

\* nothing of createMultipleSizes, of a generator or of generateIcons is
\* running
BatchIdle == bpc = "idle" /\ bargs = NoArgs /\ bjobs = NoBatch /\ bret = Null
GenIdle ==
    gen = NoGen /\ gpc = "idle" /\ results = <<>> /\ cur = 0 /\ gret = Null
\* the source image of the runs
LogoSize == [width |-> 512, height |-> 384]
\* generateIcons is used as a library on that image: there is no CLI
\* process
NoCli ==
    /\ args = Null /\ cpc = "none" /\ exitCode = 0 /\ out = <<>>
    /\ source = LogoSize

OrchIdle ==
    /\ pc = "idle" /\ report = NoReport /\ trace = <<>> /\ prev = Null
    /\ NoCli
    /\ LoggerLoaded

\* the directory the jobs write to exists, can be created or cannot
FileSystem(dir) ==
    /\ \E fs \in {"exists", "fresh", "uncreatable"} :
          /\ dirs = IF fs = "exists" THEN Missing(dir, {}) ELSE {}
          /\ uncreatable = IF fs = "uncreatable" THEN {dir} ELSE {}
    /\ files = {}
    /\ jobs = <<>>

InitBatch ==
    /\ config = IdleConfig
    /\ sourceReadable \in BOOLEAN
    /\ failBudget = MaxLen
    /\ FileSystem(BatchDir)
    /\ bpc = "called"
    /\ bargs \in [gen : {"none"}, sizes : SeqsUpTo(SizePool, MaxLen),
                  background : {backgroundColor}, pattern : BatchPatterns]
    /\ bjobs = NoBatch
    /\ bret = Null
    /\ GenIdle
    /\ OrchIdle

NextBatch ==
    \/ createMultipleSizes_map
    \/ SettleJob
    \/ createMultipleSizes_return

SpecBatch == InitBatch /\ [][NextBatch]_vars

(***************************************************************************)
(* generateAppleTouchIcons and generateMicrosoftTiles each run on their    *)
(* own, over every combination of outcomes of their jobs                   *)
(***************************************************************************)
InitGenerator(name, budget) ==
    /\ config = IdleConfig
    /\ sourceReadable \in BOOLEAN
    /\ failBudget = budget
    /\ FileSystem(BatchDir)
    /\ BatchIdle
    /\ gen = Generator(name, BatchDir)
    /\ gpc = IF name = "favicon" THEN "loop" ELSE "start"
    /\ results = <<>>
    /\ cur = 0
    /\ gret = Null
    /\ OrchIdle

InitApple == InitGenerator("apple", Len(APPLE_ICON_SIZES) + 1)

NextApple ==
    \/ generateAppleTouchIcons_default
    \/ generateAppleTouchIcons_sized
    \/ generateAppleTouchIcons_return
    \/ createMultipleSizes_map
    \/ SettleJob
    \/ createMultipleSizes_return

SpecApple == InitApple /\ [][NextApple]_vars

InitMicrosoft == InitGenerator("microsoft", Len(MS_TILE_SQUARE_SIZES) + 1)

NextMicrosoft ==
    \/ generateMicrosoftTiles_square
    \/ generateMicrosoftTiles_wide
    \/ generateMicrosoftTiles_return
    \/ createMultipleSizes_map
    \/ SettleJob
    \/ createMultipleSizes_return

SpecMicrosoft == InitMicrosoft /\ [][NextMicrosoft]_vars

(***************************************************************************)
(* resizeImage called on its own, over every source size, target box and   *)
(* fill colour up to MaxDim                                                *)
(***************************************************************************)
Dims == [width : 1..MaxDim, height : 1..MaxDim]
Fills == {backgroundColor, "#336699"}

\* a caller calls resizeImage(..) and suspends on its promise
resizeImage_call ==
    /\ gen.name = "resize"
    /\ gpc = "start"
    /\ StartResize(resizeImage("resize", 0, gen.width, gen.width, gen.height,
                               gen.background, gen.outputPath, dirs))
    /\ gpc' = "await"
    /\ UNCHANGED <<envVars, procVars, failBudget, files, batchVars, gen,
                   results, gret, orchVars>>

\* the promise of resizeImage has settled
resizeImage_settled ==
    /\ gen.name = "resize"
    /\ gpc = "await"
    /\ Resumable
    /\ gpc' = "returned"
    /\ gret' = jobs[cur].promise
    /\ UNCHANGED <<envVars, procVars, failBudget, dirs, files, jobs,
                   batchVars, gen, results, cur, orchVars>>

InitResize ==
    /\ config = IdleConfig
    /\ sourceReadable \in BOOLEAN
    /\ failBudget = 1
    /\ FileSystem(BatchDir)
    /\ BatchIdle
    /\ \E box \in Dims, fill \in Fills :
          gen = [name |-> "resize", background |-> fill,
                 outputDir |-> BatchDir, pngPath |-> Null,
                 outputPath |-> Join(BatchDir, "icon.png"),
                 width |-> box.width, height |-> box.height]
    /\ gpc = "start"
    /\ results = <<>>
    /\ cur = 0
    /\ gret = Null
    /\ pc = "idle" /\ report = NoReport /\ trace = <<>> /\ prev = Null
    /\ args = Null /\ cpc = "none" /\ exitCode = 0 /\ out = <<>>
    /\ source \in Dims
    /\ LoggerLoaded

NextResize ==
    \/ resizeImage_call
    \/ SettleJob
    \/ resizeImage_settled

SpecResize == InitResize /\ [][NextResize]_vars

(***************************************************************************)
(* Each of the four raster generators run on its own, over every           *)
(* combination of outcomes of its jobs                                     *)
(***************************************************************************)
InitGenerators ==
    \/ InitGenerator("favicon", Len(FAVICON_SIZES))
    \/ InitApple
    \/ InitGenerator("android", Len(ANDROID_ICON_SIZES))
    \/ InitMicrosoft

NextGenerators ==
    \/ generateFaviconPngs_resize
    \/ generateFaviconPngs_push
    \/ generateFaviconPngs_return
    \/ generateAppleTouchIcons_default
    \/ generateAppleTouchIcons_sized
    \/ generateAppleTouchIcons_return
    \/ generateAndroidIcons_sized
    \/ generateAndroidIcons_return
    \/ generateMicrosoftTiles_square
    \/ generateMicrosoftTiles_wide
    \/ generateMicrosoftTiles_return
    \/ createMultipleSizes_map
    \/ SettleJob
    \/ createMultipleSizes_return

SpecGenerators == InitGenerators /\ [][NextGenerators]_vars

(***************************************************************************)
(* One run of generateIcons                                                *)
(***************************************************************************)
\* the output directory and its icons subdirectory exist, can be created
\* or cannot
RunFileSystem ==
    \E fs \in {"exists", "fresh", "no outputDir", "no iconsDir"} :
        /\ dirs = IF fs = "exists" THEN Missing(iconsOutputDir, {}) ELSE {}
        /\ uncreatable =
              IF fs = "no outputDir" THEN {Normalize(config.outputDir)}
              ELSE IF fs = "no iconsDir" THEN {iconsOutputDir}
              ELSE {}

\* generateIcons(config) is called and nothing has been written or started
Called ==
    /\ files = {}
    /\ jobs = <<>>
    /\ BatchIdle
    /\ GenIdle
    /\ pc = "start"
    /\ report = NoReport
    /\ trace = <<>>
    /\ prev = Null
    /\ NoCli
    /\ LoggerLoaded

Init ==
    /\ config = IdleConfig
    /\ sourceReadable \in BOOLEAN
    /\ failBudget = MaxFailures
    /\ RunFileSystem
    /\ Called

Next ==
    \/ generateIcons_ensureDirs
    \/ generateIcons_faviconPngs
    \/ generateFaviconPngs_resize
    \/ generateFaviconPngs_push
    \/ generateFaviconPngs_return
    \/ generateIcons_faviconIco
    \/ generateFaviconIco_convert
    \/ generateFaviconIco_return
    \/ generateIcons_apple
    \/ generateAppleTouchIcons_default
    \/ generateAppleTouchIcons_sized
    \/ generateAppleTouchIcons_return
    \/ generateIcons_android
    \/ generateAndroidIcons_sized
    \/ generateAndroidIcons_return
    \/ generateIcons_microsoft
    \/ generateMicrosoftTiles_square
    \/ generateMicrosoftTiles_wide
    \/ generateMicrosoftTiles_return
    \/ generateIcons_tilesDone
    \/ generateIcons_webmanifest
    \/ generateIcons_browserconfig
    \/ generateIcons_htmlInstructions
    \/ createMultipleSizes_map
    \/ SettleJob
    \/ createMultipleSizes_return

Spec == Init /\ [][Next]_vars

(***************************************************************************)
(* Two runs of generateIcons in succession, with the same config and with  *)
(* every operation behaving in the second run as it did in the first       *)
(***************************************************************************)
\* the caller awaits the promise of generateIcons(config) and then calls
\* generateIcons(config) again
generateIcons_again ==
    /\ pc \in {"returned", "rejected"}
    /\ prev = Null
    /\ prev' = [pc |-> pc, report |-> report, jobs |-> jobs]
    /\ pc' = "start"
    /\ report' = NoReport
    /\ trace' = <<>>
    /\ jobs' = <<>>
    /\ bpc' = "idle" /\ bargs' = NoArgs /\ bjobs' = NoBatch /\ bret' = Null
    /\ gen' = NoGen /\ gpc' = "idle" /\ results' = <<>> /\ cur' = 0
    /\ gret' = Null
    /\ UNCHANGED <<config, sourceReadable, uncreatable, source, cliVars,
                   procVars, failBudget, dirs, files>>

InitTwice ==
    /\ config = IdleConfig
    /\ sourceReadable \in BOOLEAN
    /\ failBudget = FewFailures
    /\ RunFileSystem
    /\ Called

NextTwice == Next \/ generateIcons_again

SpecTwice == InitTwice /\ [][NextTwice]_vars

(***************************************************************************)
(* Two calls of generateIcons in one process, with distinct output         *)
(* directories.  The run of the model is the first call; of the other call *)
(* the model keeps what it does to state the first one can read: the       *)
(* directories it creates and the flag of logger.ts.                       *)
(***************************************************************************)
\* the configurations of the other call
OtherConfigs ==
    [sourceImage : {"logo.png"}, name : {"Other"}, outputDir : {<<"other">>},
     verbose : BOOLEAN]

\* generateIcons(other) is called while this run is suspended or about to
\* start: setVerboseMode(other.verbose); ensureDirectoryExists(..) twice
generateIcons_other ==
    /\ pc \notin {"idle", "returned", "rejected"}
    /\ others < MaxOthers
    /\ \E other \in OtherConfigs :
          /\ verboseMode' = other.verbose
          /\ dirs' = EnsureDirs(JoinDir(other.outputDir, iconsDir),
                                EnsureDirs(other.outputDir, dirs))
    /\ others' = others + 1
    /\ UNCHANGED <<envVars, log, failBudget, files, jobs, batchVars, genVars,
                   orchVars>>

\* the caller passes verbose or not
InitVerbose ==
    /\ config \in [sourceImage : {"logo.png"}, name : {"Demo"},
                    outputDir : {<<DEFAULT_OUTPUT_DIR>>}, verbose : BOOLEAN]
    /\ sourceReadable \in BOOLEAN
    /\ failBudget = FewFailures
    /\ RunFileSystem
    /\ Called

SpecLog == InitVerbose /\ [][Next]_vars

NextConcurrent == Next \/ generateIcons_other

SpecConcurrent == InitVerbose /\ [][NextConcurrent]_vars

(***************************************************************************)
(* bin/cli/args-parser.ts, bin/cli/config-builder.ts.  An optional string  *)
(* (string | undefined | null) is kept as a sequence of at most one        *)
(* string.                                                                 *)
(***************************************************************************)
\* the arguments a user may type, the ones among them that start with "-",
\* and the source image files that exist
ArgPool ==
    {"--help", "-h", "--verbose", "-v", "--force", "logo.png", "missing.png",
     ""}
StartsWithDash(arg) == arg \in {"--help", "-h", "--verbose", "-v", "--force"}
ExistingSources == {"logo.png"}

\* argv.includes(x)
Includes(argv, x) == \E i \in 1..Len(argv) : argv[i] = x
\* posArgs[i], undefined past the end
At(posArgs, i) == IF i <= Len(posArgs) THEN <<posArgs[i]>> ELSE <<>>
\* !x for an optional string: undefined and "" are falsy
Falsy(x) == x = <<>> \/ x = <<"">>

parseArgs(argv) ==
    LET posArgs == SelectSeq(argv, LAMBDA arg : ~StartsWithDash(arg)) IN
    [sourceImage |-> At(posArgs, 1),
     appName |-> At(posArgs, 2),
     outputFolder |-> IF Len(posArgs) >= 3 THEN At(posArgs, 3) ELSE <<>>,
     showHelp |-> Includes(argv, "--help") \/ Includes(argv, "-h"),
     verbose |-> Includes(argv, "--verbose") \/ Includes(argv, "-v")]

\* validateArgs(args): the error message, or null
validateArgsFileFirst(a) ==
    IF Falsy(a.sourceImage) THEN <<"Source image path is required">>
    ELSE IF a.sourceImage[1] \notin ExistingSources
    THEN <<"Source image \"" \o a.sourceImage[1] \o "\" not found">>
    ELSE IF Falsy(a.appName) THEN <<"Application name is required">>
    ELSE <<>>
validateArgs(a) ==
    IF Falsy(a.sourceImage) THEN <<"Source image path is required">>
    ELSE IF Falsy(a.appName) THEN <<"Application name is required">>
    ELSE IF a.sourceImage[1] \notin ExistingSources
    THEN <<"Source image \"" \o a.sourceImage[1] \o "\" not found">>
    ELSE <<>>

\* buildConfig(args); an output folder typed without "/" is one segment
buildConfig(a) ==
    [sourceImage |-> a.sourceImage[1],
     name |-> a.appName[1],
     outputDir |-> IF Falsy(a.outputFolder) THEN <<DEFAULT_OUTPUT_DIR>>
                   ELSE a.outputFolder,
     verbose |-> a.verbose]

(***************************************************************************)
(* bin/generate-favicons.ts: the main script of the CLI                    *)
(***************************************************************************)
\* if (args.showHelp) { displayHelpMessage(); process.exit(0) }
main_help ==
    /\ cpc = "start"
    /\ args.showHelp
    /\ out' = Append(out, "help")
    /\ exitCode' = 0
    /\ cpc' = "exited"
    /\ UNCHANGED <<config, sourceReadable, uncreatable, source, prev, args,
                   procVars, failBudget, dirs, files, jobs, batchVars,
                   genVars, orchVars>>

\* if (error) { console.error(`Error: ${error}`); displayHelpMessage();
\* process.exit(1) }
main_invalidBeforeHelp ==
    /\ cpc = "start"
    /\ validateArgs(args) # <<>>
    /\ out' = out \o <<"Error: " \o validateArgs(args)[1], "help">>
    /\ exitCode' = 1
    /\ cpc' = "exited"
    /\ UNCHANGED <<config, sourceReadable, uncreatable, source, prev, args,
                   procVars, failBudget, dirs, files, jobs, batchVars,
                   genVars, orchVars>>
main_invalid ==
    /\ cpc = "start"
    /\ ~args.showHelp
    /\ validateArgs(args) # <<>>
    /\ out' = out \o <<"Error: " \o validateArgs(args)[1], "help">>
    /\ exitCode' = 1
    /\ cpc' = "exited"
    /\ UNCHANGED <<config, sourceReadable, uncreatable, source, prev, args,
                   procVars, failBudget, dirs, files, jobs, batchVars,
                   genVars, orchVars>>

\* config = buildConfig(args); setVerboseMode of cli-ui.ts, whose flag is
\* not the one of logger.ts; the async function prints the welcome message
\* if that flag is set, calls generateIcons(config) and suspends
main_generate ==
    /\ cpc = "start"
    /\ ~args.showHelp
    /\ validateArgs(args) = <<>>
    /\ config' = buildConfig(args)
    /\ out' = IF buildConfig(args).verbose THEN Append(out, "welcome")
              ELSE out
    /\ cpc' = "awaiting"
    /\ pc' = "start"
    /\ UNCHANGED <<sourceReadable, uncreatable, source, prev, args, exitCode,
                   procVars, failBudget, dirs, files, jobs, batchVars,
                   genVars, report, trace>>

\* how the async function ends once the promise of generateIcons has
\* settled: displaySuccessMessage, which prints if the flag of cli-ui.ts
\* is set, and the process ends with code 0 when nothing is left to run; or
\* displayErrorMessage and process.exit(1)
MainEndNoExit(settled) ==
    IF settled = "returned" THEN [out |-> "success", exitCode |-> 0]
    ELSE [out |-> "error", exitCode |-> 0]
MainEnd(settled) ==
    IF settled = "returned" THEN [out |-> "success", exitCode |-> 0]
    ELSE [out |-> "error", exitCode |-> 1]

main_end ==
    /\ cpc = "awaiting"
    /\ pc \in {"returned", "rejected"}
    /\ out' = IF pc = "returned" /\ ~config.verbose THEN out
              ELSE Append(out, MainEnd(pc).out)
    /\ exitCode' = MainEnd(pc).exitCode
    /\ cpc' = "exited"
    /\ UNCHANGED <<config, sourceReadable, uncreatable, source, prev, args,
                   procVars, failBudget, dirs, files, jobs, batchVars,
                   genVars, orchVars>>

\* the process is started with up to MaxArgs arguments.  The source image
\* exists as a file: existsSync finds it and nothing can be created
\* under it.
InitCli ==
    /\ \E argv \in SeqsUpTo(ArgPool, MaxArgs) : args = parseArgs(argv)
    /\ cpc = "start"
    /\ exitCode = 0
    /\ out = <<>>
    /\ config = Null
    /\ sourceReadable \in BOOLEAN
    /\ failBudget = FewFailures
    /\ dirs = {<<s>> : s \in ExistingSources}
    /\ uncreatable = {<<s, iconsDir>> : s \in ExistingSources}
    /\ files = {}
    /\ jobs = <<>>
    /\ BatchIdle
    /\ GenIdle
    /\ pc = "idle"
    /\ report = NoReport
    /\ trace = <<>>
    /\ prev = Null
    /\ source = LogoSize
    /\ LoggerLoaded

NextCli ==
    \/ main_help
    \/ main_invalid
    \/ main_generate
    \/ main_end
    \/ Next

SpecCli == InitCli /\ [][NextCli]_vars

(***************************************************************************)
(* Runs of generateIcons over several output directories and source images *)
(***************************************************************************)
\* "static", "out/", "./out", "tmp/../out", ".", "" and "/srv/www"
OutputDirs ==
    { <<DEFAULT_OUTPUT_DIR>>, <<"out", "">>, <<".", "out">>,
      <<"tmp", "..", "out">>, <<".">>, <<>>, <<"", "srv", "www">> }
\* every output directory with one source image, two of them with a
\* second source image as well
PathConfigs ==
    [sourceImage : {"logo.png"}, name : {"Demo"}, outputDir : OutputDirs,
     verbose : {FALSE}]
    \cup [sourceImage : {"photo.jpg"}, name : {"Demo"},
          outputDir : {<<DEFAULT_OUTPUT_DIR>>, <<".", "out">>},
          verbose : {FALSE}]

InitPaths ==
    /\ config \in PathConfigs
    /\ sourceReadable \in BOOLEAN
    /\ failBudget = FewFailures
    /\ RunFileSystem
    /\ Called

SpecPaths == InitPaths /\ [][Next]_vars

(***************************************************************************)
(* generateFaviconIco called on its own, whatever the state of the file    *)
(* system, next to the runs of generateIcons                               *)
(***************************************************************************)
InitIco ==
    /\ config = IdleConfig
    /\ sourceReadable = TRUE
    /\ failBudget = 1
    /\ \E fs \in {"exists", "fresh", "uncreatable"} :
          /\ dirs = IF fs = "exists" THEN Missing(config.outputDir, {})
                    ELSE {}
          /\ uncreatable = IF fs = "uncreatable"
                           THEN {Normalize(config.outputDir)} ELSE {}
    /\ files \in SUBSET {Join(BatchDir, SizedName("favicon-", 32))}
    /\ jobs = <<>>
    /\ BatchIdle
    /\ gen = [name |-> "ico", outputDir |-> config.outputDir,
              pngPath |-> Join(BatchDir, SizedName("favicon-", 32)),
              outputPath |-> Join(config.outputDir, "favicon.ico")]
    /\ gpc = "start"
    /\ results = <<>>
    /\ cur = 0
    /\ gret = Null
    /\ OrchIdle

SpecIco == (Init \/ InitIco) /\ [][Next]_vars

(***************************************************************************)
(* Properties of createMultipleSizes (checked under SpecBatch)             *)
(***************************************************************************)
\* the batch that has returned, and the job behind its slot i
BatchReturned == bpc = "returned"
SlotJob(i) == jobs[bjobs.ids[i]]

\* C1: whatever the order in which the resize jobs complete, the sequence
\* createMultipleSizes resolves with is as long as the input list of sizes
\* and its i-th result carries the i-th input size.
C1_ResultOrderIsInputOrder ==
    (BatchReturned /\ bret.st = "fulfilled") =>
        /\ Len(bret.value) = Len(bargs.sizes)
        /\ \A i \in 1..Len(bargs.sizes) : bret.value[i].size = bargs.sizes[i]

\* a batch of distinct sizes has returned after a job completed before a
\* job that was started earlier
C1_Witness ==
    /\ BatchReturned
    /\ bret.st = "fulfilled"
    /\ bjobs.outOfOrder
    /\ Len(bargs.sizes) >= 3
    /\ \A i \in 1..Len(bargs.sizes) : SlotJob(i).promise.st = "fulfilled"
    /\ \A i, k \in 1..Len(bargs.sizes) :
          i # k => bargs.sizes[i] # bargs.sizes[k]

\* C2: in the sequence a batch resolves with, the success flag of each slot
\* is the outcome of that slot's own resize job: no job is left unsettled
\* or reported failed because another job of the batch failed.
C2_SlotReportsOwnOutcome ==
    (BatchReturned /\ bret.st = "fulfilled") =>
        \A i \in 1..Len(bret.value) :
            /\ i <= Len(bjobs.ids)
            /\ SlotJob(i).promise.st \in {"fulfilled", "rejected"}
            /\ bret.value[i].success = (SlotJob(i).promise.st = "fulfilled")
            /\ bret.value[i].path = SlotJob(i).path

\* a batch has returned in which one job failed and another succeeded
C2_Witness ==
    /\ BatchReturned
    /\ bret.st = "fulfilled"
    /\ \E i, k \in 1..Len(bret.value) :
          /\ SlotJob(i).promise.st = "rejected"
          /\ ~bret.value[i].success
          /\ SlotJob(k).promise.st = "fulfilled"
          /\ bret.value[k].success

\* C3: createMultipleSizes never rejects: whichever jobs fail, and also
\* when creating the destination directory fails, its promise is fulfilled
\* with a sequence as long as the input list.
C3_BatchNeverRejects ==
    BatchReturned =>
        /\ bret.st = "fulfilled"
        /\ Len(bret.value) = Len(bargs.sizes)

\* a batch has returned all of whose jobs failed, because the destination
\* directory could not be created
C3_Witness ==
    /\ BatchReturned
    /\ Len(bargs.sizes) >= 2
    /\ \A i \in 1..Len(bargs.sizes) :
          /\ i <= Len(bjobs.ids)
          /\ SlotJob(i).promise = [st |-> "rejected", error |-> "mkdir"]

(***************************************************************************)
(* Properties of generateIcons (checked under Spec)                        *)
(***************************************************************************)
InTrace(step) == \E i \in 1..Len(trace) : trace[i] = step
Finished == pc \in {"returned", "rejected"}
MetaSteps == {"webmanifest", "browserconfig", "htmlInstructions"}
\* a metadata file write threw
WriteThrew ==
    \E id \in 1..Len(jobs) :
        jobs[id].gen \in MetaSteps /\ jobs[id].promise.st = "threw"
\* the favicon PNG results are in the report, one of them a successful 32
FaviconsStored == report.favicons.png # <<>>
Has32 ==
    \E i \in 1..Len(report.favicons.png) :
        report.favicons.png[i].size = 32 /\ report.favicons.png[i].success

\* C4: generateFaviconIco is run if and only if the favicon PNG results hold
\* a successful entry of size 32; otherwise report.favicons.ico stays
\* null, the remaining generators run and the run does not throw for it.
C4_IcoIffFavicon32 ==
    FaviconsStored =>
        /\ InTrace("faviconIco") <=> Has32
        /\ ~Has32 =>
             /\ report.favicons.ico = Null
             /\ \A id \in 1..Len(jobs) : jobs[id].gen # "ico"
             /\ InTrace("apple")
             /\ Finished =>
                  /\ InTrace("android")
                  /\ InTrace("microsoft")
                  /\ pc = "rejected" => WriteThrew

\* a run returned its report after only the 32x32 favicon failed
C4_Witness ==
    /\ pc = "returned"
    /\ ~Has32
    /\ report.favicons.ico = Null
    /\ \E i \in 1..Len(report.favicons.png) :
          report.favicons.png[i].success
    /\ Len(report.microsoft) = 5

StepOrder ==
    <<"outputDir", "iconsDir", "faviconPngs", "faviconIco", "apple",
      "android", "microsoft", "webmanifest", "browserconfig",
      "htmlInstructions">>
StepOrderNoIco ==
    <<"outputDir", "iconsDir", "faviconPngs", "apple", "android",
      "microsoft", "webmanifest", "browserconfig", "htmlInstructions">>
IsPrefix(a, b) == Len(a) <= Len(b) /\ a = SubSeq(b, 1, Len(a))
StepOf(g) == IF g = "favicon" THEN "faviconPngs"
             ELSE IF g = "ico" THEN "faviconIco" ELSE g
C8_FixedStepOrder ==
    /\ IsPrefix(trace, StepOrder) \/ IsPrefix(trace, StepOrderNoIco)
    /\ \A i \in 1..Len(jobs) :
          /\ InTrace(StepOf(jobs[i].gen))
          /\ jobs[i].promise.st = "pending" =>
                StepOf(jobs[i].gen) = trace[Len(trace)]
          /\ \A k \in 1..Len(jobs) :
                (i < k /\ jobs[i].gen # jobs[k].gen) =>
                    jobs[i].promise.st # "pending"

\* a run went through all ten steps and returned
C8_Witness ==
    /\ pc = "returned"
    /\ trace = StepOrder
    /\ Len(jobs) = 25

\* C10: once the output directories exist, a run neither stops nor ends
\* before all four generators have been called, whichever raster jobs fail
\* and also when the favicon.ico step fails: until it has ended some step
\* of it can always be taken, and when it has ended every generator was
\* called and has started its jobs.
C10_AllGeneratorsRun ==
    ({Normalize(config.outputDir), iconsOutputDir} \subseteq dirs) =>
        /\ ~Finished => ENABLED Next
        /\ Finished =>
             /\ \A g \in {"faviconPngs", "apple", "android", "microsoft"} :
                   InTrace(g)
             /\ \A g \in {"favicon", "apple", "android", "microsoft"} :
                   \E id \in 1..Len(jobs) : jobs[id].gen = g

\* a run ended after the favicon.ico step and an Apple job failed
C10_Witness ==
    /\ Finished
    /\ report.favicons.ico # Null
    /\ ~report.favicons.ico.success
    /\ \E i \in 1..Len(report.apple) : ~report.apple[i].success
    /\ Len(report.microsoft) = 5

\* C9: each of the three metadata file writes is recorded in the report
\* generateIcons returns, with a success flag that tells whether the write
\* succeeded or failed.
C9_WriteOutcomeRecorded ==
    Finished =>
        \A id \in 1..Len(jobs) :
            jobs[id].gen \in MetaSteps =>
                /\ pc = "returned"
                /\ report[jobs[id].gen] # Null
                /\ report[jobs[id].gen].success =
                       (jobs[id].promise.st = "fulfilled")

(***************************************************************************)
(* Properties of the generators run on their own                           *)
(***************************************************************************)
GeneratorReturned == gpc = "returned"

\* C6: whatever the outcomes of its jobs, generateMicrosoftTiles returns 5
\* results: the squares 70, 144, 150, 310 in that order, not flagged
\* isWide, then one result with isWide, size "310x150" and path
\* mstile-310x150.png.
C6_FiveTiles ==
    (GeneratorReturned /\ gen.name = "microsoft") =>
        /\ gret.st = "fulfilled"
        /\ Len(gret.value) = 5
        /\ \A i \in 1..4 :
              /\ gret.value[i].size = <<70, 144, 150, 310>>[i]
              /\ "isWide" \notin DOMAIN gret.value[i]
        /\ "isWide" \in DOMAIN gret.value[5]
        /\ gret.value[5].isWide = TRUE
        /\ gret.value[5].size = "310x150"
        /\ gret.value[5].path =
               [dir |-> gen.outputDir, base |-> "mstile-310x150.png"]

\* the generator returned after the wide tile and a square tile failed
\* while another square tile succeeded
C6_Witness ==
    /\ GeneratorReturned
    /\ gen.name = "microsoft"
    /\ gret.st = "fulfilled"
    /\ ~gret.value[5].success
    /\ \E i, k \in 1..4 : gret.value[i].success /\ ~gret.value[k].success

\* C7: whatever the outcomes of its jobs, generateAppleTouchIcons returns
\* 10 results: exactly one has isDefault, with size 180 and the path
\* apple-touch-icon.png; the other nine are the catalog sizes 57 .. 180 in
\* catalog order, with the paths apple-touch-icon-NxN.png.
AppleNames ==
    <<"apple-touch-icon-57x57.png", "apple-touch-icon-60x60.png",
      "apple-touch-icon-72x72.png", "apple-touch-icon-76x76.png",
      "apple-touch-icon-114x114.png", "apple-touch-icon-120x120.png",
      "apple-touch-icon-144x144.png", "apple-touch-icon-152x152.png",
      "apple-touch-icon-180x180.png">>
IsDefault(r) == "isDefault" \in DOMAIN r /\ r.isDefault
C7_TenTouchIcons ==
    (GeneratorReturned /\ gen.name = "apple") =>
        /\ gret.st = "fulfilled"
        /\ Len(gret.value) = 10
        /\ Cardinality({i \in 1..Len(gret.value) :
                           IsDefault(gret.value[i])}) = 1
        /\ \A i \in 1..Len(gret.value) :
              IsDefault(gret.value[i]) =>
                  /\ gret.value[i].size = 180
                  /\ gret.value[i].path =
                        [dir |-> gen.outputDir,
                         base |-> "apple-touch-icon.png"]
        /\ LET sized == SelectSeq(gret.value, LAMBDA r : ~IsDefault(r)) IN
           /\ Len(sized) = 9
           /\ \A i \in 1..Len(sized) :
                 /\ sized[i].size =
                       <<57, 60, 72, 76, 114, 120, 144, 152, 180>>[i]
                 /\ sized[i].path =
                       [dir |-> gen.outputDir, base |-> AppleNames[i]]

\* the generator returned after the default icon and a sized icon failed
\* while another sized icon succeeded
C7_Witness ==
    /\ GeneratorReturned
    /\ gen.name = "apple"
    /\ gret.st = "fulfilled"
    /\ \E i, k, m \in 1..Len(gret.value) :
          /\ IsDefault(gret.value[i]) /\ ~gret.value[i].success
          /\ ~IsDefault(gret.value[k]) /\ ~gret.value[k].success
          /\ ~IsDefault(gret.value[m]) /\ gret.value[m].success

\* C11: generateIcons rejects, without returning a report, only when the
\* output directory or the icons subdirectory cannot be created; every
\* other failure leaves the run ending with a report.
C11_AbortsOnlyOnDirectoryFailure ==
    pc = "rejected" =>
        ~({Normalize(config.outputDir), iconsOutputDir} \subseteq dirs)

(***************************************************************************)
(* Properties of generateFaviconIco (checked under SpecIco)                *)
(***************************************************************************)
\* the favicon.ico conversions started so far
IcoJobs == {id \in 1..Len(jobs) : jobs[id].gen = "ico"}

\* C17: createFaviconIco never rejects: an error while creating the output
\* directory, converting or writing becomes the return value false;
\* generateFaviconIco then returns exactly {path, success: false}, which
\* generateIcons records in report.favicons.ico before it goes on with the
\* remaining generators.
C17_IcoFailureIsRecorded ==
    /\ (gen.name = "ico" /\ gpc = "returned") =>
          /\ gret.st = "fulfilled"
          /\ gret.value =
                [path |-> gen.outputPath,
                 success |-> (jobs[cur].promise.st = "fulfilled")]
    /\ \A id \in IcoJobs :
          (jobs[id].promise.st = "rejected" /\ pc # "idle") =>
              /\ ~Finished => ENABLED Next
              /\ InTrace("apple") =>
                    report.favicons.ico =
                        [path |-> jobs[id].path, success |-> FALSE]
              /\ Finished =>
                    /\ InTrace("apple")
                    /\ InTrace("android")
                    /\ InTrace("microsoft")
                    /\ pc = "rejected" => WriteThrew

\* a run returned its report after the favicon.ico conversion failed
C17_Witness ==
    /\ pc = "returned"
    /\ report.favicons.ico # Null
    /\ ~report.favicons.ico.success
    /\ Len(report.apple) = 10
    /\ Len(report.microsoft) = 5

(***************************************************************************)
(* Properties of the four raster generators (checked under SpecGenerators) *)
(***************************************************************************)
\* the number of results each generator returns
ResultCount ==
    [favicon |-> 4, apple |-> 10, android |-> 2, microsoft |-> 5]
\* the job of the running generator that wrote, or failed to write, path p
JobOf(p) == CHOOSE id \in 1..Len(jobs) : jobs[id].path = p

\* C19: no failure of a job escapes a generator: whatever jobs fail,
\* generateFaviconPngs, generateAppleTouchIcons, generateAndroidIcons and
\* generateMicrosoftTiles resolve with 4, 10, 2 and 5 results; the result
\* of a failed job has success = false and carries the error, every other
\* result has success = true.
C19_GeneratorsNeverReject ==
    GeneratorReturned =>
        /\ gret.st = "fulfilled"
        /\ Len(gret.value) = ResultCount[gen.name]
        /\ Len(jobs) = ResultCount[gen.name]
        /\ \A i \in 1..Len(gret.value) :
              LET r == gret.value[i] IN
              /\ \E id \in 1..Len(jobs) : jobs[id].path = r.path
              /\ r.success = (jobs[JobOf(r.path)].promise.st = "fulfilled")
              /\ ("error" \in DOMAIN r) = ~r.success

\* generateFaviconPngs and generateAndroidIcons each returned after one of
\* their jobs failed and another succeeded
C19_Witness ==
    /\ GeneratorReturned
    /\ gen.name \in {"favicon", "android"}
    /\ gret.st = "fulfilled"
    /\ \E i, k \in 1..Len(gret.value) :
          gret.value[i].success /\ ~gret.value[k].success

(***************************************************************************)
(* More properties of createMultipleSizes (checked under SpecBatch)        *)
(***************************************************************************)
\* C20: createMultipleSizes starts the job of every size before it waits
\* for any of them, and returns only after every job has completed: it has
\* never returned while one of its jobs is still running.
C20_ReturnsAfterEveryJob ==
    /\ bpc \in {"awaiting", "returned"} =>
          /\ Len(bjobs.ids) = Len(bargs.sizes)
          /\ Len(jobs) = Len(bargs.sizes)
    /\ bpc = "called" => jobs = <<>>
    /\ BatchReturned =>
          \A i \in 1..Len(bjobs.ids) :
              /\ SlotJob(i).promise.st \in {"fulfilled", "rejected"}
              /\ SlotJob(i).chained # Null

\* a batch of three sizes returned after all three jobs had run, and one of
\* them had failed
C20_Witness ==
    /\ BatchReturned
    /\ Len(bargs.sizes) = 3
    /\ \A i \in 1..3 : SlotJob(i).promise.st # "pending"
    /\ \E i, k \in 1..3 : /\ SlotJob(i).promise = [st |-> "fulfilled"]
                          /\ SlotJob(k).promise.st = "rejected"
                          /\ SlotJob(k).promise.error # "mkdir"

(***************************************************************************)
(* Properties of the destination paths (checked under SpecPaths)           *)
(***************************************************************************)
\* the file names of the raster catalog, and those of the metadata files
RasterNames ==
    { "favicon-16x16.png", "favicon-32x32.png", "favicon-48x48.png",
      "favicon-96x96.png", "apple-touch-icon.png",
      "android-chrome-192x192.png", "android-chrome-512x512.png",
      "mstile-70x70.png", "mstile-144x144.png", "mstile-150x150.png",
      "mstile-310x310.png", "mstile-310x150.png" }
        \cup {AppleNames[i] : i \in 1..Len(AppleNames)}
MetaNames == {"site.webmanifest", "browserconfig.xml", "head-instructions.html"}

\* the entries of the report, and the path strings they record
RasterEntries ==
    report.favicons.png \o report.apple \o report.android
        \o report.microsoft
FileEntries ==
    {report.favicons.ico, report.webmanifest, report.browserconfig,
     report.htmlInstructions} \ {Null}
RecordedPaths ==
    {PathString(RasterEntries[i].path) : i \in 1..Len(RasterEntries)}
        \cup {PathString(r.path) : r \in FileEntries}

\* D/name and D/icons/name written out literally
Literal(D, name) == Str(D) \o "/" \o name
LiteralPaths(D) ==
    {Literal(D, n) : n \in MetaNames \cup {"favicon.ico"}}
        \cup {Literal(D, "icons/" \o n) : n \in RasterNames}
\* the same after path normalisation
NormalPaths(D) ==
    {Str(Normalize(D \o <<n>>)) : n \in MetaNames \cup {"favicon.ico"}}
        \cup {Str(Normalize(D \o <<"icons", n>>)) : n \in RasterNames}
Normal(D) == Normalize(D) = D /\ D # <<".">>

\* the jobs that resize the source image
RasterJobs ==
    {id \in 1..Len(jobs) :
        jobs[id].gen \in {"favicon", "apple", "android", "microsoft"}}

EntryName(job) ==
    LET n == IF job.gen = "microsoft" /\ job.slot = 0 THEN "310x150"
             ELSE ToString(job.size) \o "x" \o ToString(job.size) IN
    IF job.gen = "favicon" THEN "favicon-" \o n \o ".png"
    ELSE IF job.gen = "android" THEN "android-chrome-" \o n \o ".png"
    ELSE IF job.gen = "microsoft" THEN "mstile-" \o n \o ".png"
    ELSE IF job.slot = 0 THEN "apple-touch-icon.png"
    ELSE "apple-touch-icon-" \o n \o ".png"
\* the destination of a raster job, from the output directory and its
\* catalog entry alone
EntryPath(D, job) == Str(Normalize(D \o <<"icons", EntryName(job)>>))

\* C16: the destination path of every job is a function of the output
\* directory and the job's catalog entry alone: it is the same whatever
\* the source image and whatever the outcomes of the jobs, it is fixed
\* when the job is started (before its resize settles), and the result
\* recorded for the job carries that same path.
C16_PathsDependOnCatalogOnly ==
    /\ \A id \in RasterJobs :
          PathString(jobs[id].path) = EntryPath(config.outputDir, jobs[id])
    /\ LET returned == IF gret # Null /\ gret.st = "fulfilled"
                                     /\ gen.name # "ico"
                       THEN gret.value ELSE <<>>
           entries == RasterEntries \o returned
       IN \A i \in 1..Len(entries) :
             \E id \in RasterJobs :
                 /\ jobs[id].path = entries[i].path
                 /\ ToString(jobs[id].size) = ToString(entries[i].size)
                 /\ jobs[id].promise.st # "pending"

\* a run on the second source image returned after a raster job failed,
\* while jobs of the same batch were still pending with their paths fixed
C16_Witness ==
    /\ config.sourceImage = "photo.jpg"
    /\ config.outputDir = <<".", "out">>
    /\ \E id, k \in RasterJobs :
          /\ jobs[id].promise.st = "rejected"
          /\ jobs[k].promise.st = "pending"
          /\ jobs[k].gen = "microsoft"
          /\ PathString(jobs[k].path) = "out/icons/mstile-310x310.png"

(***************************************************************************)
(* Properties of two successive runs (checked under SpecTwice)             *)
(***************************************************************************)
\* two result sequences agree entry by entry on size, path and success
Agree(a, b) ==
    /\ Len(a) = Len(b)
    /\ \A i \in 1..Len(a) : /\ ToString(a[i].size) = ToString(b[i].size)
                            /\ a[i].path = b[i].path
                            /\ a[i].success = b[i].success
\* two file results agree on path and success, or both are null
AgreeFile(a, b) ==
    IF a = Null \/ b = Null THEN a = Null /\ b = Null
    ELSE a.path = b.path /\ a.success = b.success
\* the metadata writes among a sequence of operations: what was written
\* where, and whether the write returned
Writes(js) ==
    {[path |-> js[i].path, content |-> js[i].content,
      done |-> js[i].promise.st = "fulfilled"] :
        i \in {k \in 1..Len(js) : js[k].gen \in MetaSteps}}
\* the dimensions asked of the raster written to each path
Rasters(js) ==
    {[path |-> js[i].path, width |-> js[i].width, height |-> js[i].height,
      done |-> js[i].promise.st = "fulfilled"] :
        i \in {k \in 1..Len(js) : js[k].gen \notin MetaSteps}}
SecondRunFinished == prev # Null /\ Finished

\* C15: a second run of generateIcons with the same config, in which every
\* underlying operation behaves as in the first, ends as the first did;
\* the two reports agree entry by entry on size, path and success, the
\* three metadata files get the same contents and the rasters the same
\* dimensions: the directories and files the first run left do not change
\* the outcome.
C15_SecondRunAgrees ==
    SecondRunFinished =>
        /\ pc = prev.pc
        /\ Agree(report.favicons.png, prev.report.favicons.png)
        /\ AgreeFile(report.favicons.ico, prev.report.favicons.ico)
        /\ Agree(report.apple, prev.report.apple)
        /\ Agree(report.android, prev.report.android)
        /\ Agree(report.microsoft, prev.report.microsoft)
        /\ AgreeFile(report.webmanifest, prev.report.webmanifest)
        /\ AgreeFile(report.browserconfig, prev.report.browserconfig)
        /\ AgreeFile(report.htmlInstructions, prev.report.htmlInstructions)
        /\ Writes(jobs) = Writes(prev.jobs)
        /\ Rasters(jobs) = Rasters(prev.jobs)

\* both runs returned a report in which one raster job failed and the
\* others succeeded, the second run finding the directories and files of
\* the first
C15_Witness ==
    /\ SecondRunFinished
    /\ pc = "returned"
    /\ prev.pc = "returned"
    /\ uncreatable = {}
    /\ \E i \in 1..Len(report.apple) : ~report.apple[i].success
    /\ report.favicons.ico # Null
    /\ report.favicons.ico.success
    /\ Cardinality(Writes(jobs)) = 3
    /\ \A id \in 1..Len(prev.jobs) :
          prev.jobs[id].promise.st = "fulfilled" =>
              prev.jobs[id].path \in files

(***************************************************************************)
(* Properties of the CLI (checked under SpecCli)                           *)
(***************************************************************************)
Exited == cpc = "exited"
\* what the arguments lack, whatever else they lack
NoSource == Falsy(args.sourceImage)
NoName == Falsy(args.appName)
NoSuchFile == ~NoSource /\ args.sourceImage[1] \notin ExistingSources
ValidationFails == ~args.showHelp /\ (NoSource \/ NoName \/ NoSuchFile)
\* some raster job of the run failed
SomeRasterFailed ==
    \E id \in 1..Len(jobs) : /\ jobs[id].gen \notin MetaSteps \cup {"ico"}
                             /\ jobs[id].promise.st = "rejected"

\* C12: the CLI process exits with code 1 exactly when argument validation
\* fails or generateIcons throws; when generateIcons returns a report it
\* exits with code 0, also when raster jobs of that report failed.
C12_ExitCode ==
    Exited =>
        /\ exitCode \in {0, 1}
        /\ exitCode = 1 <=> (ValidationFails \/ pc = "rejected")
        /\ pc = "returned" => exitCode = 0

\* the process exited with code 0 after generateIcons returned a report in
\* which a raster job had failed and another had succeeded
C12_Witness ==
    /\ Exited
    /\ exitCode = 0
    /\ pc = "returned"
    /\ SomeRasterFailed
    /\ \E i \in 1..Len(report.apple) : report.apple[i].success

\* C13: when validateArgs reports an error (source image argument missing,
\* else application name missing, else source file not existing), the CLI
\* prints the error and the usage help and exits non-zero before
\* buildConfig or generateIcons is called: no directory is created, no job
\* is started and no file is written.
C13_ValidationErrorStopsEarly ==
    (Exited /\ ValidationFails) =>
        /\ exitCode # 0
        /\ Len(out) = 2
        /\ out[2] = "help"
        /\ NoSource => out[1] = "Error: Source image path is required"
        /\ (~NoSource /\ NoName) =>
              out[1] = "Error: Application name is required"
        /\ (~NoName /\ NoSuchFile) =>
              out[1] = "Error: Source image \"" \o args.sourceImage[1]
                           \o "\" not found"
        /\ config = Null
        /\ pc = "idle"
        /\ trace = <<>>
        /\ jobs = <<>>
        /\ files = {}
        /\ dirs = {<<s>> : s \in ExistingSources}

\* the process exited on the missing application name although the source
\* file it was given does not exist either
C13_Witness ==
    /\ Exited
    /\ args.sourceImage = <<"missing.png">>
    /\ NoName
    /\ out = <<"Error: Application name is required", "help">>
    /\ exitCode = 1

(***************************************************************************)
(* Properties of resizeImage (checked under SpecResize)                    *)
(***************************************************************************)
\* the resize jobs that have succeeded
Resized == {id \in 1..Len(jobs) : /\ "options" \in DOMAIN jobs[id]
                                  /\ jobs[id].promise.st = "fulfilled"}
Abs(n) == IF n < 0 THEN -n ELSE n

\* C18: for all positive target widths and heights and every source aspect
\* ratio, a successful resizeImage writes an image of exactly
\* targetWidth x targetHeight pixels; the whole source is shown in it
\* (never cropped), scaled to fit inside the box (it touches the box in
\* one direction and does not exceed it in the other) with its aspect
\* ratio preserved to within one pixel, and the rest is filled with the
\* fill colour.
C18_ContainFit ==
    \A id \in Resized :
        LET job == jobs[id]
            image == job.image
        IN /\ image.width = job.width
           /\ image.height = job.height
           /\ image.shown = source
           /\ image.inner.width \in 1..job.width
           /\ image.inner.height \in 1..job.height
           /\ \/ /\ image.inner.width = job.width
                 /\ Abs(image.inner.height * source.width
                          - source.height * job.width) < source.width
              \/ /\ image.inner.height = job.height
                 /\ Abs(image.inner.width * source.height
                          - source.width * job.height) < source.height
           /\ image.fill = <<job.options.background>>

\* a 4x1 source was resized into a 2x3 box: the image is 2x3, the source
\* occupies 2x1 of it and the rest is fill
C18_Witness ==
    /\ gen.name = "resize"
    /\ gpc = "returned"
    /\ source = [width |-> 4, height |-> 1]
    /\ \E id \in Resized :
          /\ jobs[id].image.width = 2
          /\ jobs[id].image.height = 3
          /\ jobs[id].image.inner = [width |-> 2, height |-> 1]
          /\ jobs[id].image.fill = <<"#336699">>

(***************************************************************************)
(* Properties of the generators' scheduling (checked under SpecGenerators   *)
(* and Spec)                                                               *)
(***************************************************************************)
RasterGens == {"favicon", "apple", "android", "microsoft"}
\* the jobs this step starts
StartedNow == {id \in 1..Len(jobs') : id > Len(jobs)}
\* a job whose resize has completed, with success or not
Completed(job) ==
    \/ job.promise.st = "fulfilled"
    \/ job.promise.st = "rejected" /\ job.promise.error = "sharp"

\* C21 as stated: within each of the four generators every resize job is
\* started before any other job of the same generator has completed (all
\* jobs of a catalog are issued concurrently), and the generator suspends
\* only once: no step that starts a job of a generator finds a completed
\* job of that generator.
C21_JobsIssuedConcurrently ==
    [][\A k \in StartedNow :
          jobs'[k].gen \in RasterGens =>
              \A id \in 1..Len(jobs) :
                  jobs[id].gen = jobs'[k].gen => ~Completed(jobs[id])]_vars

(***************************************************************************)
(* Properties of the written paths of one run (checked under Spec)         *)
(***************************************************************************)
\* the jobs that write the file of the given name
Writers(name) == {id \in 1..Len(jobs) : jobs[id].path.base = name}

\* C22: within one run of generateIcons the destination paths of all write
\* operations (raster jobs, favicon.ico, metadata files) are pairwise
\* distinct, whether the jobs run at the same time or not; in particular
\* apple-touch-icon.png is not the path of the 180x180 icon and
\* mstile-310x150.png is not the path of a square tile.
C22_DestinationsAreDistinct ==
    /\ \A i, k \in 1..Len(jobs) :
          i # k => /\ jobs[i].path # jobs[k].path
                   /\ PathString(jobs[i].path) # PathString(jobs[k].path)
    /\ \A i \in Writers("apple-touch-icon.png") :
          \A k \in Writers("apple-touch-icon-180x180.png") :
              /\ i # k
              /\ jobs[i].path # jobs[k].path
    /\ \A i \in Writers("mstile-310x150.png") :
          /\ jobs[i].gen = "microsoft" /\ jobs[i].slot = 0
          /\ \A k \in 1..Len(jobs) :
                (jobs[k].gen = "microsoft" /\ jobs[k].slot > 0) =>
                    jobs[i].path # jobs[k].path

\* a run returned after its 25 write operations, the wide tile and the
\* square tiles among them, wrote 25 different paths
C22_Witness ==
    /\ pc = "returned"
    /\ Len(jobs) = 25
    /\ Cardinality({PathString(jobs[id].path) : id \in 1..Len(jobs)}) = 25
    /\ Writers("apple-touch-icon.png") # {}
    /\ Writers("apple-touch-icon-180x180.png") # {}
    /\ Writers("mstile-310x150.png") # {}
    /\ Writers("mstile-310x310.png") # {}

\* the started conversions to favicon.ico, and the jobs that wrote (or are
\* writing) the file a job reads
Conversions == {id \in 1..Len(jobs) : jobs[id].gen = "ico"}
WritersOf(p) == {k \in 1..Len(jobs) : jobs[k].path = p}
InFlight == {k \in 1..Len(jobs) : /\ jobs[k].gen \in RasterGens
                                  /\ jobs[k].promise.st = "pending"}

\* C23: no job reads a path another job of the run may still be writing.
\* Raster jobs read the source image and the metadata writes read nothing;
\* the favicon.ico step reads the 32x32 PNG, it starts only after
\* generateFaviconPngs has returned and its results are stored, the job
\* that wrote that PNG has completed with success, and no raster job is in
\* flight while the favicon.ico step runs.
C23_IcoReadsCompletedPng ==
    /\ \A id \in 1..Len(jobs) :
          /\ jobs[id].gen \in RasterGens =>
                jobs[id].input = config.sourceImage
          /\ jobs[id].gen \in MetaSteps => jobs[id].input = Null
    /\ \A id \in Conversions :
          /\ InTrace("faviconIco")
          /\ Len(report.favicons.png) = Len(FAVICON_SIZES)
          /\ jobs[id].input \in files
          /\ WritersOf(jobs[id].input) # {}
          /\ \A k \in WritersOf(jobs[id].input) :
                /\ k < id
                /\ jobs[k].gen = "favicon" /\ jobs[k].size = 32
                /\ jobs[k].promise.st = "fulfilled"
          /\ \A k \in 1..Len(jobs) :
                jobs[k].gen = "favicon" => /\ k < id
                                           /\ jobs[k].promise.st # "pending"
    /\ pc = "faviconIco" => InFlight = {}

\* the conversion to favicon.ico is pending: it reads the 32x32 PNG that was
\* written, after a favicon job of another size had failed
C23_Witness ==
    /\ pc = "faviconIco"
    /\ \E id \in Conversions :
          /\ jobs[id].promise.st = "pending"
          /\ jobs[id].input \in files
          /\ PathString(jobs[id].input) = "static/icons/favicon-32x32.png"
    /\ \E k \in 1..Len(jobs) : /\ jobs[k].gen = "favicon"
                               /\ jobs[k].promise.st = "rejected"

(***************************************************************************)
(* Properties of the way results travel from the jobs to the report        *)
(* (checked under Spec)                                                    *)
(***************************************************************************)
\* the results createMultipleSizes delivered to generator g: the values the
\* handlers of its batch jobs produced, in the order of the sizes
BatchJobs(g) == {id \in 1..Len(jobs) : jobs[id].gen = g /\ jobs[id].slot > 0}
Delivered(g) ==
    [i \in 1..Cardinality(BatchJobs(g)) |->
        jobs[CHOOSE id \in BatchJobs(g) : jobs[id].slot = i].chained.value]
\* the jobs generator g awaited on its own, in the order it started them
OwnJobs(g) == {id \in 1..Len(jobs) : jobs[id].gen = g /\ jobs[id].slot = 0}
Own(g, i) ==
    CHOOSE id \in OwnJobs(g) :
        Cardinality({k \in OwnJobs(g) : k <= id}) = i
\* result r is the result of that job
ResultOfJob(r, job) ==
    /\ r.path = job.path
    /\ r.size = job.size
    /\ r.success = (job.promise.st = "fulfilled")

\* sequence v is what generator g has to return: the results of its batch
\* as delivered, and the results of the jobs it awaited itself, at their
\* places
Unmodified(g, v) ==
    LET batch == Delivered(g)
        n == Len(batch)
    IN IF g = "favicon"
       THEN /\ Len(v) = Cardinality(OwnJobs(g))
            /\ \A i \in 1..Len(v) : ResultOfJob(v[i], jobs[Own(g, i)])
       ELSE IF g = "apple"
       THEN /\ Len(v) = 1 + n
            /\ ResultOfJob(v[1], jobs[Own(g, 1)])
            /\ SubSeq(v, 2, Len(v)) = batch
       ELSE IF g = "android"
       THEN v = batch
       ELSE /\ Len(v) = n + 1
            /\ SubSeq(v, 1, n) = batch
            /\ ResultOfJob(v[n + 1], jobs[Own(g, 1)])

\* the sequence of generator g in the report
Reported(rep, g) == IF g = "favicon" THEN rep.favicons.png
                    ELSE IF g = "apple" THEN rep.apple
                    ELSE IF g = "android" THEN rep.android
                    ELSE rep.microsoft

\* the value the running generator returned, and the sequences stored in
\* the report, are as the jobs produced them
ReturnedUnmodified ==
    (gpc = "returned" /\ gret.st = "fulfilled" /\ gen.name \in RasterGens) =>
        Unmodified(gen.name, gret.value)
ReportedUnmodified ==
    \A g \in RasterGens :
        Reported(report, g) # <<>> => Unmodified(g, Reported(report, g))

\* C24: results flow up unmodified.  The result of a job is created when
\* the job completes and never changes afterwards; what a generator
\* returns is the sequence createMultipleSizes delivered plus the result of
\* its own special case, nothing dropped, duplicated, reordered or
\* rewritten; each sequence of the report is the sequence its generator
\* returned, and no later step alters it.
C24_ResultsFlowUnmodified ==
    [][/\ \A id \in 1..Len(jobs) :
             /\ jobs[id].chained # Null =>
                   jobs'[id].chained = jobs[id].chained
             /\ jobs[id].promise.st \in {"fulfilled", "rejected"} =>
                   jobs'[id].promise = jobs[id].promise
             /\ (jobs[id].chained = Null /\ jobs'[id].chained # Null) =>
                   /\ jobs'[id].promise.st # "pending"
                   /\ ResultOfJob(jobs'[id].chained.value, jobs'[id])
       /\ (gen' = gen /\ gpc = "returned") => gret' = gret
       /\ gen' = gen => IsPrefix(results, results')
       /\ ReturnedUnmodified'
       /\ \A g \in RasterGens :
             /\ Reported(report, g) # <<>> =>
                   Reported(report', g) = Reported(report, g)
             /\ (Reported(report, g) = <<>> /\ Reported(report', g) # <<>>) =>
                   /\ Returned(g)
                   /\ Reported(report', g) = gret.value
       /\ ReportedUnmodified'
      ]_vars

\* the report of a returned run holds ten Apple results, a failed one and a
\* successful one among the nine that createMultipleSizes delivered
C24_Witness ==
    /\ pc = "returned"
    /\ Len(report.apple) = 10
    /\ SubSeq(report.apple, 2, 10) = Delivered("apple")
    /\ \E i, k \in 2..10 : /\ ~report.apple[i].success
                           /\ report.apple[k].success
    /\ Len(report.microsoft) = 5
    /\ ~report.microsoft[5].success

(***************************************************************************)
(* Claims: the log                                                         *)
(***************************************************************************)
\* the paths the log has a line of that kind for
Lines(says) == {log[i].what : i \in {k \in 1..Len(log) : log[k].says = says}}

\* the jobs that write an image: the resizes and the ICO conversion
ImageJobs == {id \in 1..Len(jobs) : jobs[id].gen \in RasterGens \cup {"ico"}}

\* the destinations of the image jobs of this run that succeeded, and of
\* those that failed
Succeeded == {PathString(jobs[id].path) :
                 id \in {k \in ImageJobs : jobs[k].promise.st = "fulfilled"}}
Failed == {PathString(jobs[id].path) :
              id \in {k \in ImageJobs : jobs[k].promise.st = "rejected"}}

\* C25: two interleaved runs with distinct output directories share no
\* mutable state: the flag the logger of this run reads is the one this run
\* set from its own config.verbose, and the lines of a returned run are
\* those it prints alone: a Created line for each successful job exactly
\* when its config.verbose is true, and a Generating line under the same
\* condition
C25_RunsShareNoState ==
    /\ pc \notin {"idle", "start"} => verboseMode = config.verbose
    /\ pc = "returned" =>
          /\ Lines("Created") = IF config.verbose THEN Succeeded ELSE {}
          /\ (Lines("Generating") # {}) = config.verbose

\* the lines that name a file
FileLines == {i \in 1..Len(log) : log[i].says \in {"Created", "Error creating"}}

\* C27: an error line naming the destination is printed for every failed
\* image job whatever config.verbose is, and a Created line for every
\* successful one exactly when config.verbose is true: no other per-file
\* line is ever printed, a returned run has printed one line for each such
\* job, and a silent run without a failure prints no per-file line
C27_PerFileLines ==
    /\ Lines("Error creating") \subseteq Failed
    /\ Lines("Created") \subseteq (IF config.verbose THEN Succeeded ELSE {})
    /\ pc = "returned" =>
          /\ Lines("Error creating") = Failed
          /\ Lines("Created") = IF config.verbose THEN Succeeded ELSE {}
          /\ Cardinality(FileLines) =
                Cardinality(Lines("Error creating") \cup Lines("Created"))
    /\ (~config.verbose /\ Failed = {}) => FileLines = {}

\* a silent run has returned: one of its jobs failed and its error line is
\* the only per-file line, the other jobs having succeeded
C27_Witness ==
    /\ pc = "returned"
    /\ ~config.verbose
    /\ Cardinality(Failed) = 1
    /\ Cardinality(Succeeded) = Cardinality(ImageJobs) - 1
    /\ Cardinality(ImageJobs) > Len(APPLE_ICON_SIZES)
    /\ Cardinality(FileLines) = 1
    /\ \A i \in FileLines : /\ log[i].says = "Error creating"
                              /\ log[i].what \in Failed

(***************************************************************************)
(* Claims: the output path pattern (checked under SpecBatch)               *)
(***************************************************************************)
\* the pattern as it is written: the segments of its directory, each
\* followed by a separator, then the pieces of its last segment
RECURSIVE Slashed(_)
Slashed(segs) ==
    IF segs = <<>> THEN <<>> ELSE <<Head(segs), "/">> \o Slashed(Tail(segs))
Pieces(pattern) == Slashed(pattern.dir) \o pattern.toks
\* where the placeholder occurs in it
Tokens(pattern) ==
    {i \in 1..Len(Pieces(pattern)) : Pieces(pattern)[i] = SizeToken}
\* the pattern written with the decimal string of n at the occurrences R
Written(pattern, n, R) ==
    Concat([i \in 1..Len(Pieces(pattern)) |->
               IF i \in R THEN ToString(n) ELSE Pieces(pattern)[i]])

\* C26: in createMultipleSizes the path of the result for size n is the
\* pattern with the decimal string of n at every occurrence of the
\* placeholder: no occurrence is left in a path, the result delivered for
\* the size carries that path, and two different sizes of a batch have
\* different paths when the pattern contains the placeholder
C26_EveryTokenReplaced ==
    bpc \in {"awaiting", "returned"} =>
       LET pattern == bargs.pattern
           all == Tokens(pattern)
           spelt == [i \in 1..Len(bargs.sizes) |->
                        PathString(jobs[bjobs.ids[i]].path)]
       IN \A i \in 1..Len(bargs.sizes) :
             /\ spelt[i] = Written(pattern, bargs.sizes[i], all)
             /\ \A R \in (SUBSET all) \ {all} :
                   spelt[i] # Written(pattern, bargs.sizes[i], R)
             /\ jobs[bjobs.ids[i]].chained # Null =>
                   jobs[bjobs.ids[i]].chained.value.path
                      = jobs[bjobs.ids[i]].path
             /\ (bret # Null /\ bret.st = "fulfilled") =>
                   bret.value[i].path = jobs[bjobs.ids[i]].path
             /\ \A k \in 1..Len(bargs.sizes) :
                   (all # {} /\ bargs.sizes[k] # bargs.sizes[i]) =>
                      spelt[k] # spelt[i]

\* a batch of three different sizes has returned for a pattern with the
\* placeholder in its directory and in its last segment: three different
\* paths, none with a placeholder
C26_Witness ==
    /\ bpc = "returned"
    /\ bret.st = "fulfilled"
    /\ Cardinality(Tokens(bargs.pattern)) = 2
    /\ SizeToken \in {bargs.pattern.dir[i] : i \in 1..Len(bargs.pattern.dir)}
    /\ Cardinality({bargs.sizes[i] : i \in 1..Len(bargs.sizes)}) = MaxLen
    /\ Cardinality({PathString(bret.value[i].path) :
                       i \in 1..Len(bret.value)}) = MaxLen
    /\ PathString(bret.value[1].path)
          = "static/icons/" \o ToString(bargs.sizes[1]) \o "/icon-"
               \o ToString(bargs.sizes[1]) \o ".png"

(***************************************************************************)
(* Claims: the help of the CLI (checked under SpecCli)                     *)
(***************************************************************************)
\* --help or -h is among the arguments
AsksForHelp(argv) == \E i \in 1..Len(argv) : argv[i] \in {"--help", "-h"}

\* C28: when --help or -h is anywhere in the arguments, whatever the other
\* arguments are, the only step of the CLI is to print the help and exit
\* with code 0: no validation error is printed, no config is built,
\* generateIcons is not called and nothing is created, started or written
C28_HelpExitsBeforeValidation ==
    [][/\ (cpc = "start" /\ args = parseArgs(<<>>)) =>
              \A argv \in SeqsUpTo(ArgPool, MaxArgs) :
                  parseArgs(argv).showHelp <=> AsksForHelp(argv)
       /\ args.showHelp =>
              /\ cpc = "start"
              /\ cpc' = "exited"
              /\ exitCode' = 0
              /\ out = <<>>
              /\ out' = <<"help">>
              /\ config' = Null
              /\ pc' = "idle"
              /\ trace' = <<>>
              /\ jobs' = <<>>
              /\ files' = {}
              /\ dirs' = dirs
              /\ log' = <<>>
      ]_vars

\* the process exited with code 0 on the help alone, although -h came
\* first, the application name was missing and the source image named
\* after it does not exist
C28_Witness ==
    /\ Exited
    /\ args.showHelp
    /\ args.verbose
    /\ NoSuchFile
    /\ NoName
    /\ exitCode = 0
    /\ out = <<"help">>
    /\ config = Null

(***************************************************************************)
(* Claims: the icon files the metadata refers to                           *)
(***************************************************************************)
\* the icon files a written content refers to: the src of the icons of the
\* manifest, the src of the tile logos of browserconfig.xml, the href of
\* the icon links and the content of the tile image of the HTML head
IconRefs(w) ==
    IF w.gen = "webmanifest"
    THEN {w.content.icons[i].src : i \in 1..Len(w.content.icons)}
    ELSE IF w.gen = "browserconfig"
    THEN {w.content[i].src :
             i \in {k \in 1..Len(w.content) : w.content[k].tag # "TileColor"}}
    ELSE {w.content[i].href :
             i \in {k \in 1..Len(w.content) :
                       /\ w.content[k].tag = "link"
                       /\ w.content[k].rel \in {"icon", "apple-touch-icon"}}}
         \cup {w.content[i].content :
                  i \in {k \in 1..Len(w.content) :
                            /\ w.content[k].tag = "meta"
                            /\ w.content[k].name = "msapplication-TileImage"}}

\* the metadata files written so far
Metadata == {id \in 1..Len(jobs) : jobs[id].gen \in MetaSteps}
\* the references to the files the raster jobs of this run write under
\* icons/
Targeted ==
    {iconPath \o "/" \o jobs[id].path.base :
        id \in {k \in RasterJobs : jobs[k].path.dir = iconsOutputDir}}

\* C29: every icon file the generated metadata refers to (the two icons of
\* site.webmanifest, the four tile logos of browserconfig.xml, the icon
\* links and the tile image of head-instructions.html) is the destination
\* under icons/ of a raster job that a generator of the same run started
C29_ReferencedIconsAreTargets ==
    \A id \in Metadata :
        /\ IconRefs(jobs[id]) \subseteq Targeted
        /\ jobs[id].gen = "webmanifest" =>
              Cardinality(IconRefs(jobs[id])) = 2
        /\ jobs[id].gen = "browserconfig" =>
              Cardinality(IconRefs(jobs[id])) = 4

\* a run has returned: its three metadata files refer to twenty icon
\* files, each of them written by a job of the run, and favicon-48x48.png
\* is written without being referred to
C29_Witness ==
    /\ pc = "returned"
    /\ Cardinality(Metadata) = 3
    /\ Cardinality(UNION {IconRefs(jobs[id]) : id \in Metadata}) = 20
    /\ "/icons/mstile-144x144.png"
          \in UNION {IconRefs(jobs[id]) : id \in Metadata}
    /\ "/icons/favicon-48x48.png"
          \in Targeted \ UNION {IconRefs(jobs[id]) : id \in Metadata}

====
